---- MODULE Spec2Model ----
(***************************************************************************)
(* Model of ion_functions/data/adcp_functions.py: the ADCP coordinate      *)
(* transforms (beam -> instrument -> Earth -> true north) and the wrappers *)
(* built from them.                                                        *)
(*                                                                         *)
(* Numbers.  The code computes in IEEE doubles.  Here every real number x  *)
(* is the integer nearest to x * Scale (fixed point, three decimals), and  *)
(* every product or quotient is rounded to the nearest unit, the way each  *)
(* floating-point operation rounds its result.  An angle in degrees is an  *)
(* integer number of degrees (not scaled); sin and cos of an angle come    *)
(* from a table of the true values rounded to 1/Scale.                     *)
(*                                                                         *)
(* Arrays.  A 2-D array of shape (N, M) is a sequence of N rows, each a    *)
(* sequence of M numbers; a 1-D array of length N is a sequence of N       *)
(* numbers.  numpy's broadcasting (a dimension of size 1 stretches to the  *)
(* other operand's size, any other disagreement raises ValueError) is      *)
(* modelled as numpy does it.                                              *)
(***************************************************************************)
EXTENDS Integers, Sequences, FiniteSets, TLC

VARIABLES pc, fn, args, ret

vars == <<pc, fn, args, ret>>

(***************************************************************************)
(* Bounds of the model.                                                    *)
(***************************************************************************)
\* largest number of samples (rows, N) of an input array
MaxN == 2
\* largest number of bins (columns, M) of an input array
MaxM == 2

(***************************************************************************)
(* Fixed-point arithmetic standing for the code's float arithmetic.        *)
(***************************************************************************)
Scale == 10 * 10 * 10

Abs(x) == IF x >= 0 THEN x ELSE -x

Max2(x, y) == IF x >= y THEN x ELSE y

\* n / d rounded to the nearest integer (d > 0), symmetric in the sign of n
RoundDiv(n, d) ==
    IF n >= 0 THEN (n + d \div 2) \div d ELSE -((-n + d \div 2) \div d)

\* x * y of two fixed-point numbers
Mul(x, y) == RoundDiv(x * y, Scale)

\* x / y of two fixed-point numbers, y # 0
Div(x, y) ==
    IF y > 0 THEN RoundDiv(x * Scale, y) ELSE -RoundDiv(x * Scale, -y)

RECURSIVE FloorSqrtIn(_, _, _)
\* the largest k in lo..hi with k * k <= n (lo * lo <= n is given)
FloorSqrtIn(n, lo, hi) ==
    IF lo >= hi THEN lo
    ELSE LET mid == (lo + hi + 1) \div 2
         IN  IF mid * mid <= n THEN FloorSqrtIn(n, mid, hi)
             ELSE FloorSqrtIn(n, lo, mid - 1)

\* the integer nearest to the square root of n, 0 <= n < 2^30
Isqrt(n) ==
    LET k == FloorSqrtIn(n, 0, 32767)
    IN  IF n - k * k > k THEN k + 1 ELSE k

\* np.sqrt of a fixed-point number
Sqrt(x) == Isqrt(x * Scale)

(***************************************************************************)
(* np.sin and np.cos of np.radians(deg): a quarter-wave table of           *)
(* sin(deg) * Scale, rounded, extended by symmetry to every angle that     *)
(* reduces to a table entry.                                               *)
(***************************************************************************)
SinTable ==
    [d \in {0, 15, 20, 30, 45, 60, 70, 75, 90} |->
        CASE d = 0  -> 0
          [] d = 15 -> 259
          [] d = 20 -> 342
          [] d = 30 -> 500
          [] d = 45 -> 707
          [] d = 60 -> 866
          [] d = 70 -> 940
          [] d = 75 -> 966
          [] d = 90 -> 1000]

SinDeg(deg) ==
    LET m == deg % 360
    IN  IF m <= 90 THEN SinTable[m]
        ELSE IF m <= 180 THEN SinTable[180 - m]
        ELSE IF m <= 270 THEN -SinTable[m - 180]
        ELSE -SinTable[360 - m]

CosDeg(deg) == SinDeg(deg + 90)

\* np.tan(np.radians(deg)), cos(deg) # 0
TanDeg(deg) == Div(SinDeg(deg), CosDeg(deg))

\* np.cos(np.arctan(x)) = 1 / sqrt(1 + x^2): arctan lies in (-90, 90) degrees
CosArctan(x) == Div(Scale, Isqrt(Scale * Scale + x * x))

\* np.sin(np.arctan(x)) = x / sqrt(1 + x^2)
SinArctan(x) == Div(x, Isqrt(Scale * Scale + x * x))

(***************************************************************************)
(* numpy arrays and broadcasting.                                          *)
(***************************************************************************)
\* a.shape of a 2-D array
Shape(a) == <<Len(a), Len(a[1])>>

\* two shapes broadcast together iff each dimension agrees or one is 1
Compatible(s, t) ==
    \A k \in 1..2 : s[k] = t[k] \/ s[k] = 1 \/ t[k] = 1

BroadcastShape(s, t) == <<Max2(s[1], t[1]), Max2(s[2], t[2])>>

\* two 1-D lengths broadcast together
Compatible1(k, l) == k = l \/ k = 1 \/ l = 1

\* element (i, j) of 2-D array a seen through broadcasting
At(a, i, j) ==
    a[IF Len(a) = 1 THEN 1 ELSE i][IF Len(a[1]) = 1 THEN 1 ELSE j]

\* every sample reading the first element
At1_first(a, i) == a[1]

\* element i of 1-D array a seen through broadcasting
At1(a, i) == a[IF Len(a) = 1 THEN 1 ELSE i]

\* the result of a call that raised: numpy's ValueError, no value returned
Raised == [status |-> "ValueError"]

(***************************************************************************)
(* adcp_beam2ins: beam coordinates -> instrument coordinates.              *)
(***************************************************************************)
\* theta = 20.0 / 180.0 * np.pi, kept in degrees
beam_theta == 20

\* a = 1.0 / (2.0 * np.sin(theta))
coef_a == Div(Scale, 2 * SinDeg(beam_theta))

\* b = 1.0 / (4.0 * np.cos(theta))
coef_b == Div(Scale, 4 * CosDeg(beam_theta))

\* c = 1.0: +1.0 for a convex transducer head
coef_c == Scale

\* d = a / np.sqrt(2.0)
coef_d == Div(coef_a, Sqrt(2 * Scale))

\* the shape of x1 + x2 + x3 + x4 evaluated left to right, <<>> if it raises
SumShape(s1, s2, s3, s4) ==
    IF ~Compatible(s1, s2) THEN <<>>
    ELSE LET s12 == BroadcastShape(s1, s2)
         IN  IF ~Compatible(s12, s3) THEN <<>>
             ELSE LET s123 == BroadcastShape(s12, s3)
                  IN  IF ~Compatible(s123, s4) THEN <<>>
                      ELSE BroadcastShape(s123, s4)

\* the east component taken from the sum of beams 1 and 2
beam2ins_u_sum(x1, x2) == Mul(Mul(coef_c, coef_a), x1 + x2)

\* u = c * a * (b1 - b2), one element
beam2ins_u(x1, x2) == Mul(Mul(coef_c, coef_a), x1 - x2)

\* the north component with beams 3 and 4 exchanged
beam2ins_v_swapped(x3, x4) == Mul(Mul(coef_c, coef_a), x3 - x4)

\* v = c * a * (b4 - b3), one element
beam2ins_v(x3, x4) == Mul(Mul(coef_c, coef_a), x4 - x3)

\* the vertical component with a constant offset added: affine, not linear
beam2ins_w_offset(x1, x2, x3, x4) == Mul(coef_b, x1 + x2 + x3 + x4) + Scale

\* w = b * (b1 + b2 + b3 + b4), one element
beam2ins_w(x1, x2, x3, x4) == Mul(coef_b, x1 + x2 + x3 + x4)

\* e = d * (b1 + b2 - b3 - b4), one element
beam2ins_e(x1, x2, x3, x4) == Mul(coef_d, x1 + x2 - x3 - x4)

adcp_beam2ins(b1, b2, b3, b4) ==
    LET s1 == Shape(b1)
        s2 == Shape(b2)
        s3 == Shape(b3)
        s4 == Shape(b4)
        su == BroadcastShape(s1, s2)
        sv == BroadcastShape(s4, s3)
        sw == SumShape(s1, s2, s3, s4)
    IN  IF ~Compatible(s1, s2) \/ ~Compatible(s4, s3) \/ sw = <<>>
        THEN Raised
        ELSE [status |-> "ok",
              u |-> [i \in 1..su[1] |-> [j \in 1..su[2] |->
                      beam2ins_u(At(b1, i, j), At(b2, i, j))]],
              v |-> [i \in 1..sv[1] |-> [j \in 1..sv[2] |->
                      beam2ins_v(At(b3, i, j), At(b4, i, j))]],
              w |-> [i \in 1..sw[1] |-> [j \in 1..sw[2] |->
                      beam2ins_w(At(b1, i, j), At(b2, i, j),
                                 At(b3, i, j), At(b4, i, j))]],
              e |-> [i \in 1..sw[1] |-> [j \in 1..sw[2] |->
                      beam2ins_e(At(b1, i, j), At(b2, i, j),
                                 At(b3, i, j), At(b4, i, j))]]]

(***************************************************************************)
(* adcp_ins2earth: instrument coordinates -> Earth coordinates.            *)
(***************************************************************************)
\* the mask taken as "vertical is not 0": every non-zero flag offsets the roll
EffectiveRoll_truthy(roll_i, vertical_i) ==
    roll_i + 180 * (IF vertical_i # 0 THEN 1 ELSE 0)

\* the mask inverted: the half turn given to the downward-looking samples
EffectiveRoll_inverted(roll_i, vertical_i) ==
    roll_i + 180 * (IF vertical_i = 1 THEN 0 ELSE 1)

\* a wrong offset: a quarter turn instead of a half turn
EffectiveRoll_quarter(roll_i, vertical_i) ==
    roll_i + 90 * (IF vertical_i = 1 THEN 1 ELSE 0)

\* mask = (vertical == 1); R = roll + (180.0 * mask), for one sample
EffectiveRoll(roll_i, vertical_i) ==
    roll_i + 180 * (IF vertical_i = 1 THEN 1 ELSE 0)

\* the pitch correction reading the offset roll R instead of the raw roll
PitchRoll_fromR(roll_i, R_i) == R_i

\* t2rad = np.radians(roll): the roll that enters the pitch correction is the
\* roll as given, not the effective roll R
PitchRoll(roll_i, R_i) == roll_i

\* np.tan(t1rad) * np.cos(t2rad), the argument of np.arctan, for one sample
PitchArg(pitch_i, t2_i) == Mul(TanDeg(pitch_i), CosDeg(t2_i))

\* the heading matrix turning the other way round
M1_counter(H) ==
    <<<<CosDeg(H), -SinDeg(H), 0    >>,
      <<SinDeg(H), CosDeg(H),  0    >>,
      <<0,         0,          Scale>>>>

\* the heading matrix of one sample
M1(H) ==
    <<<< CosDeg(H), SinDeg(H), 0    >>,
      <<-SinDeg(H), CosDeg(H), 0    >>,
      << 0,         0,         Scale>>>>

\* the pitch matrix of one sample, from cos_P and sin_P
M2(cos_P, sin_P) ==
    <<<<Scale, 0,     0     >>,
      <<0,     cos_P, -sin_P>>,
      <<0,     sin_P, cos_P >>>>

\* the roll matrix with a sign slip in its last row: no longer a rotation
M3_signslip(R) ==
    <<<<CosDeg(R), 0,     SinDeg(R)>>,
      <<0,         Scale, 0        >>,
      <<SinDeg(R), 0,     CosDeg(R)>>>>

\* the roll matrix of one sample, from the effective roll R
M3(R) ==
    <<<< CosDeg(R), 0,     SinDeg(R)>>,
      << 0,         Scale, 0        >>,
      <<-SinDeg(R), 0,     CosDeg(R)>>>>

RECURSIVE SumSeq(_)
\* the sum of the numbers of a sequence
SumSeq(q) == IF q = <<>> THEN 0 ELSE q[1] + SumSeq(Tail(q))

\* the product taken in the opposite order, C * B * A
einsum_ijkl_reversed(A, B, C) ==
    [i \in 1..3 |-> [l \in 1..3 |->
        RoundDiv(SumSeq([j \in 1..3 |-> SumSeq([k \in 1..3 |->
                     C[i][j] * B[j][k] * A[k][l]])]),
                 Scale * Scale)]]

\* np.einsum('hij,hjk,hkl->hil', M1, M2, M3) on one slice h:
\* MM(i,l) = sum over j, k of A(i,j) * B(j,k) * C(k,l)
einsum_ijkl(A, B, C) ==
    [i \in 1..3 |-> [l \in 1..3 |->
        RoundDiv(SumSeq([j \in 1..3 |-> SumSeq([k \in 1..3 |->
                     A[i][j] * B[j][k] * C[k][l]])]),
                 Scale * Scale)]]

\* np.einsum('hil,hlm->him', MM, uvw) at slice h, row i, column m, where the
\* rows of uvw[h] are xs[1][h], xs[2][h], ...
einsum_ilm(MMh, xs, h, i, m) ==
    RoundDiv(SumSeq([l \in 1..Len(xs) |-> MMh[i][l] * xs[l][h][m]]), Scale)

\* uvw[:, k, :] = x: the array x broadcast into shape s, or <<>> if numpy
\* cannot broadcast it into that shape
AssignInto(s, x) ==
    IF \A k \in 1..2 : Shape(x)[k] = s[k] \/ Shape(x)[k] = 1
    THEN [i \in 1..s[1] |-> [j \in 1..s[2] |->
                      At(x, i, j)]]
    ELSE <<>>

adcp_ins2earth(u, v, w, heading, pitch, roll, vertical) ==
    LET n_packets == Shape(u)[1]
        n_uvw == Shape(u)[2]
        s == <<n_packets, n_uvw>>
        lenR == Max2(Len(roll), Len(vertical))
        lenP == Max2(Len(pitch), Len(roll))
        vv0 == AssignInto(s, v)
        ww0 == AssignInto(s, w)
    IN  IF \/ ~Compatible1(Len(roll), Len(vertical))  \* roll + (180.0 * mask)
           \/ ~Compatible1(Len(pitch), Len(roll))     \* tan(t1rad) * cos(t2rad)
           \/ Len(heading) # n_packets                \* M1 is ragged
           \/ lenP # n_packets                        \* M2 is ragged
           \/ lenR # n_packets                        \* M3 is ragged
           \/ vv0 = <<>>                              \* uvw[:, 1, :] = v
           \/ ww0 = <<>>                              \* uvw[:, 2, :] = w
        THEN Raised
        ELSE LET R == [h \in 1..n_packets |->
                         EffectiveRoll(At1(roll, h), At1(vertical, h))]
                 x == [h \in 1..n_packets |->
                         PitchArg(At1(pitch, h), PitchRoll(At1(roll, h), R[h]))]
                 cos_P == [h \in 1..n_packets |-> CosArctan(x[h])]
                 sin_P == [h \in 1..n_packets |-> SinArctan(x[h])]
                 MM == [h \in 1..n_packets |->
                          einsum_ijkl(M1(heading[h]),
                                      M2(cos_P[h], sin_P[h]),
                                      M3(R[h]))]
                 uvw == <<u, vv0, ww0>>
             IN  [status |-> "ok",
                  uu |-> [h \in 1..s[1] |-> [m \in 1..s[2] |->
                      einsum_ilm(MM[h], uvw, h, 1, m)]],
                  vv |-> [h \in 1..s[1] |-> [m \in 1..s[2] |->
                      einsum_ilm(MM[h], uvw, h, 2, m)]],
                  ww |-> [h \in 1..s[1] |-> [m \in 1..s[2] |->
                      einsum_ilm(MM[h], uvw, h, 3, m)]],
                  loc |-> [R |-> R, cos_P |-> cos_P, sin_P |-> sin_P, MM |-> MM]]

(***************************************************************************)
(* magnetic_correction: magnetic north -> true north.                      *)
(***************************************************************************)
\* the rotation in the opposite sense
DeclinationMatrix_transposed(theta_h) ==
    <<<<CosDeg(theta_h), -SinDeg(theta_h)>>,
      <<SinDeg(theta_h),  CosDeg(theta_h)>>>>

\* a sign slip that leaves the matrix symmetric, no longer a rotation
DeclinationMatrix_symmetric(theta_h) ==
    <<<<CosDeg(theta_h), SinDeg(theta_h)>>,
      <<SinDeg(theta_h), CosDeg(theta_h)>>>>

\* M = [[cosT, sinT], [-sinT, cosT]] of one sample
DeclinationMatrix(theta_h) ==
    <<<< CosDeg(theta_h), SinDeg(theta_h)>>,
      <<-SinDeg(theta_h), CosDeg(theta_h)>>>>

\* np.einsum('hij,hjk->hik', M, uv) at slice h, row i, column k.  einsum
\* broadcasts a lead dimension of size 1 of either operand: Mh is the matrix
\* and the rows of uv are u and v, each read through broadcasting.
einsum_ijk(Mh, u, v, h, i, k) ==
    RoundDiv(Mh[i][1] * At(u, h, k) + Mh[i][2] * At(v, h, k), Scale)

magnetic_correction(theta, u, v) ==
    LET s == Shape(u)
        v0 == AssignInto(s, v)
        n_out == Max2(Len(theta), s[1])
        so == <<n_out, s[2]>>
    IN  IF \/ v0 = <<>>                          \* uv[:, 1, :] = v
           \/ ~Compatible1(Len(theta), s[1])     \* einsum over h
        THEN Raised
        ELSE LET M == [h \in 1..n_out |-> DeclinationMatrix(At1(theta, h))]
             IN  [status |-> "ok",
                  u_cor |-> [h \in 1..so[1] |-> [k \in 1..so[2] |->
                      einsum_ijk(M[h], u, v0, h, 1, k)]],
                  v_cor |-> [h \in 1..so[1] |-> [k \in 1..so[2] |->
                      einsum_ijk(M[h], u, v0, h, 2, k)]],
                  loc |-> [M |-> M]]

(***************************************************************************)
(* Wrappers.                                                               *)
(***************************************************************************)
\* mm/s -> m/s: the divisor of "e = e / 1000."
mm_per_m == 1000

\* x / 1000. element by element
ScaleToMetres(x) ==
    [i \in 1..Len(x) |-> [j \in 1..Len(x[1]) |->
                      RoundDiv(x[i][j], mm_per_m)]]

\* np.atleast_2d leaves the 2-D arrays of this model as they are
adcp_beam_error(b1, b2, b3, b4) ==
    LET r == adcp_beam2ins(b1, b2, b3, b4)
    IN  IF r.status # "ok" THEN Raised
        ELSE [status |-> "ok", e |-> ScaleToMetres(r.e)]

(***************************************************************************)
(* The staged wrappers: each runs its stages one after the other; ret      *)
(* holds the wrapper's local variables while it runs (its frame).          *)
(***************************************************************************)
\* centidegrees -> degrees: the divisor of "h = np.atleast_1d(h) / 100."
cdeg_per_deg == 100

\* daPa -> dbar: the divisor of "z = np.atleast_1d(z) / 1000."
daPa_per_dbar == 1000

\* dbar -> m: the factor 1.019716 of "z = z * 1.019716", less one, in
\* millionths
depth_excess == 19716

\* the angles left in centidegrees
CentiToDeg_unscaled(a) == a

\* np.atleast_1d(a) / 100.: a 1-D array of centidegrees in degrees
CentiToDeg(a) == [k \in 1..Len(a) |-> RoundDiv(a[k], cdeg_per_deg)]

\* z = np.atleast_1d(z) / 1000.; z = z * 1.019716: a 1-D array of pressures
\* in daPa as depths in m
PressureToDepth(z) ==
    [k \in 1..Len(z) |->
        LET dbar == RoundDiv(z[k] * Scale, daPa_per_dbar)
        IN  dbar + RoundDiv(dbar * depth_excess, 1000000)]

\* the wrappers by the stages they run
HorizontalBeam == {"adcp_beam_eastward", "adcp_beam_northward",
                   "vadcp_beam_eastward", "vadcp_beam_northward"}

HorizontalEarth == {"adcp_earth_eastward", "adcp_earth_northward"}

VerticalBeam == {"adcp_beam_vertical", "vadcp_beam_vertical_est",
                 "vadcp_beam_vertical_true"}

ErrorBeam == {"vadcp_beam_error"}

ScaleOnly == {"adcp_earth_vertical", "adcp_earth_error"}

Eastward == {"adcp_beam_eastward", "vadcp_beam_eastward", "adcp_earth_eastward"}

Northward == {"adcp_beam_northward", "vadcp_beam_northward",
              "adcp_earth_northward"}

Staged == HorizontalBeam \cup HorizontalEarth \cup VerticalBeam
          \cup ErrorBeam \cup ScaleOnly

\* a local variable that has not been assigned yet
Unset == <<>>

\* the frame of a wrapper that has converted its inputs and called nothing
\* yet; calls lists the stages run so far and decl_args the argument tuples
\* handed to the declination provider
Frame(h, p, r, vf, z, lat, lon, dt) ==
    [status |-> "running",
     h |-> h, p |-> p, r |-> r, vf |-> vf, z |-> z,
     lat |-> lat, lon |-> lon, dt |-> dt,
     u |-> Unset, v |-> Unset, w |-> Unset, e |-> Unset,
     uu |-> Unset, vv |-> Unset, ww |-> Unset,
     theta |-> Unset, u_cor |-> Unset, v_cor |-> Unset,
     calls |-> <<>>, decl_args |-> <<>>]

\* a wrapper left by an exception of one of its stages
Failed(calls) == [status |-> "ValueError", calls |-> calls]

\* the stages a wrapper runs, in the order of its statements; "scale" is
\* the division by 1000
Stages(f) ==
    IF f \in HorizontalBeam
    THEN <<"adcp_beam2ins", "adcp_ins2earth", "magnetic_declination",
           "magnetic_correction", "scale">>
    ELSE IF f \in HorizontalEarth
    THEN <<"magnetic_declination", "magnetic_correction", "scale">>
    ELSE IF f \in VerticalBeam
    THEN <<"adcp_beam2ins", "adcp_ins2earth", "scale">>
    ELSE IF f \in ErrorBeam
    THEN <<"adcp_beam2ins", "scale">>
    ELSE <<"scale">>

\* where the wrapper f stands once it has run the stages calls
After(f, calls) ==
    IF Len(calls) >= Len(Stages(f)) THEN "returned"
    ELSE Stages(f)[Len(calls) + 1]

\* the four-beam estimate fed to the rotation by every wrapper
VerticalFed_estimate(f, frame, a) == frame.w

\* the vertical component handed to adcp_ins2earth: beam 5 as measured in
\* vadcp_beam_vertical_true, the four-beam estimate w everywhere else
VerticalFed(f, frame, a) ==
    IF f = "vadcp_beam_vertical_true" THEN a.b5 ELSE frame.w

\* the argument tuple with latitude and longitude exchanged
DeclinationArgs_swapped(lat, lon, dt, z) == <<lon, lat, dt, z>>

\* the arguments of magnetic_declination(lat, lon, dt, z)
DeclinationArgs(lat, lon, dt, z) == <<lat, lon, dt, z>>

\* the declinations (degrees) the provider may answer for the first sample;
\* nothing holds it to a range
DeclinationAngles == {-30, 0, 15, 390}

\* generic_functions.magnetic_declination, which is not part of this file:
\* the set of arrays it may return, one angle per sample
magnetic_declination(lat, lon, dt, z) ==
    {[h \in 1..Len(lat) |-> t0 + 30 * (h - 1)] : t0 \in DeclinationAngles}

\* the pair (u, v) handed to magnetic_correction: the Earth-frame result of
\* adcp_ins2earth in a beam wrapper, the inputs u and v in an Earth wrapper
CorrectionInput(f, frame, a) ==
    IF f \in HorizontalBeam THEN <<frame.uu, frame.vv>> ELSE <<a.u, a.v>>

\* the components of the corrected pair exchanged between the wrappers
Selected_swapped(f, frame, a) ==
    IF f \in Eastward THEN frame.v_cor
    ELSE IF f \in Northward THEN frame.u_cor
    ELSE IF f \in VerticalBeam THEN frame.ww
    ELSE IF f \in ErrorBeam THEN frame.e
    ELSE IF f = "adcp_earth_vertical" THEN a.w
    ELSE a.e

\* the velocity in mm/s a wrapper scales and returns
Selected(f, frame, a) ==
    IF f \in Eastward THEN frame.u_cor
    ELSE IF f \in Northward THEN frame.v_cor
    ELSE IF f \in VerticalBeam THEN frame.ww
    ELSE IF f \in ErrorBeam THEN frame.e
    ELSE IF f = "adcp_earth_vertical" THEN a.w
    ELSE a.e

(***************************************************************************)
(* Bin depths.                                                             *)
(***************************************************************************)
\* cm -> m: the divisor of "dist_first_bin = dist_first_bin / 100"
cm_per_m == 100

\* what "/" does to two whole numbers depends on the interpreter that runs
\* the module, which has no "from __future__ import division": "true" is the
\* quotient as a float (Python 3), "floor" is the quotient rounded down to a
\* whole number (Python 2)
Divisions == {"true", "floor"}

\* x / n of the whole numbers x and n > 0, as a fixed-point number
IntDiv(x, n, division) ==
    IF division = "floor" THEN (x \div n) * Scale ELSE RoundDiv(x * Scale, n)

\* x / 100 of a length in whole centimetres, in metres
CmToMetres(x, division) == IntDiv(x, cm_per_m, division)

\* dist_first_bin + bin_size * np.arange(0, num_bins), d and b in metres
BinOffsets(d, b, num_bins) == [k \in 1..num_bins |-> d + b * (k - 1)]

\* the sensor depth taken with its sign
DepthMagnitude_signed(sensor_depth) == sensor_depth

\* if sensor_depth < 0: sensor_depth = sensor_depth * -1
DepthMagnitude(sensor_depth) ==
    IF sensor_depth < 0 THEN sensor_depth * (-1) ELSE sensor_depth

\* sensor_depth - offsets if adcp_orientation == 1, sensor_depth + offsets
\* otherwise
BinDepths(sensor_depth, offsets, adcp_orientation) ==
    [k \in 1..Len(offsets) |->
        IF adcp_orientation = 1 THEN sensor_depth - offsets[k]
        ELSE sensor_depth + offsets[k]]

\* dist_first_bin and bin_size are whole centimetres, sensor_depth is a
\* float; division is what "/" does in the interpreter running the call,
\* kept in loc
adcp_bin_depths_pd8(dist_first_bin, bin_size, num_bins, sensor_depth, adcp_orientation, division) ==
    LET d == CmToMetres(dist_first_bin, division)
        b == CmToMetres(bin_size, division)
        sd == DepthMagnitude(sensor_depth)
    IN  [status |-> "ok",
         bin_depths_pd8 |->
             BinDepths(sd, BinOffsets(d, b, num_bins), adcp_orientation),
         loc |-> [division |-> division]]

\* enthalpy_SSO_0_p(p) / p in units of 1e-5 J/(kg dbar), p a fixed-point
\* pressure in dbar.  The source's closed form (two logarithms of rational
\* functions of p) is evaluated as its expansion in p,
\* 9.72661 - 2.253e-5 p + 2.4e-10 p^2, which agrees with it to 1 part in
\* 10000 for |p| <= 9000 dbar.
EnthalpyPerDbar(p) ==
    LET pd == RoundDiv(p, Scale)
    IN  972661 - RoundDiv(2253 * pd, 1000) + RoundDiv(24 * pd * pd, 1000000)

\* enthalpy_SSO_0_p(p): specific enthalpy [J/kg] at SSO, CT = 0 and sea
\* pressure p [dbar], both fixed-point; the product p * (9 + frac) is taken
\* in two halves so that it stays within 32 bits
enthalpy_SSO_0_p(p) ==
    LET frac == EnthalpyPerDbar(p) - 900000
        a == Abs(p)
        m == 9 * a + RoundDiv((a \div Scale) * frac, 100)
                   + RoundDiv((a % Scale) * frac, 100000)
    IN  IF p >= 0 THEN m ELSE -m

\* B = 9.780327 * (1.0 + (5.2792e-3 + (2.32e-5 * sin2)) * sin2) in units of
\* 1e-5 m/s^2, sin2 fixed-point
Gravity5(sin2) ==
    978033 + RoundDiv((5163 + RoundDiv(23 * sin2, Scale)) * sin2, Scale)

\* n / d of a large n >= 0 and a fixed-point d > 0, as a fixed-point number
DivLarge(n, d) == (n \div d) * Scale + RoundDiv((n % d) * Scale, d)

\* z_from_p(p, lat) with geo_strf_dyn_height = 0: height [m] (negative in
\* the ocean) from sea pressure p [dbar] and latitude [degrees];
\* gamma = 2.26e-07, A = -0.5 * gamma * B, C = enthalpy_SSO_0_p(p),
\* returns -2 * C / (B + sqrt(B^2 - 4 * A * C))
z_from_p(p, lat) ==
    LET X == SinDeg(lat)
        sin2 == Mul(X, X)
        B == RoundDiv(Gravity5(sin2), 100)
        C == enthalpy_SSO_0_p(p)
        gammaC == RoundDiv(226 * RoundDiv(C, Scale), 1000000)
        fourAC == -2 * Mul(B, gammaC)
        D == Sqrt(Mul(B, B) - fourAC)
        m == DivLarge(2 * Abs(C), B + D)
    IN  IF C >= 0 THEN -m ELSE m

\* dist_first_bin and bin_size are whole centimetres, pressure is the sensor
\* pressure in whole daPa, latitude in whole degrees; division is what "/"
\* does in the interpreter running the call.  loc keeps the locals:
\* pressure_dbar (assigned, never read) and z_from_p_p, the first argument of
\* the call of z_from_p
adcp_bin_depths(dist_first_bin, bin_size, num_bins, pressure, adcp_orientation, latitude, division) ==
    LET d == CmToMetres(dist_first_bin, division)
        b == CmToMetres(bin_size, division)
        pressure1 == pressure * (-1)               \* pressure = pressure * -1
        pressure_dbar == IntDiv(pressure1, daPa_per_dbar, division)
        z_from_p_p == pressure1 * Scale            \* z_from_p(pressure, latitude)
        sensor_depth == z_from_p(z_from_p_p, latitude)
    IN  [status |-> "ok",
         bin_depths |->
             BinDepths(sensor_depth, BinOffsets(d, b, num_bins),
                       adcp_orientation),
         loc |-> [division |-> division,
                  pressure_dbar |-> pressure_dbar,
                  z_from_p_p |-> z_from_p_p,
                  sensor_depth |-> sensor_depth]]

(***************************************************************************)
(* adcp_backscatter: echo intensity counts -> dB.                          *)
(***************************************************************************)
\* sfactor after "if np.isscalar(sfactor) is False: sfactor =
\* sfactor.reshape(sfactor.shape[0], 1)": a scalar stays a scalar, seen here
\* as a (1, 1) array, and a 1-D array of k factors becomes a (k, 1) column.
\* The name sfactor is rebound to the column; the caller's array keeps its
\* shape
FactorColumn(sfactor) ==
    IF sfactor.scalar
    THEN <<<<sfactor.val[1]>>>>
    ELSE [i \in 1..Len(sfactor.val) |-> <<sfactor.val[i]>>]

\* raw is a 2-D array of whole counts; sfactor is [scalar |-> TRUE, val |-> <<f>>]
\* for the Python scalar f or [scalar |-> FALSE, val |-> a 1-D array], the
\* factors in dB per count as fixed-point numbers.  dB = raw * sfactor,
\* broadcast
adcp_backscatter(raw, sfactor) ==
    LET column == FactorColumn(sfactor)
        s == BroadcastShape(Shape(raw), Shape(column))
    IN  IF ~Compatible(Shape(raw), Shape(column))
        THEN Raised
        ELSE [status |-> "ok",
              dB |-> [i \in 1..s[1] |-> [j \in 1..s[2] |->
                         At(raw, i, j) * At(column, i, j)]]]

(***************************************************************************)
(* The inputs the callers are drawn from.                                  *)
(***************************************************************************)
\* velocities in mm/s, as the instrument reports them
VelValues == <<100, -50, 0, 30, -100, 70, 20>>

\* the k-th velocity (cyclically), as a fixed-point number
Vel(k) == Scale * VelValues[(k % Len(VelValues)) + 1]

\* the shapes (N, M) of the input arrays
Shapes == {<<n, m>> : n \in 1..MaxN, m \in 1..MaxM}

\* number of different velocity arrays drawn per shape
NumSeeds == 3

Seeds == 0..(NumSeeds - 1)

\* a velocity array of shape s; its entries differ along both axes
GenArray(s, seed) == [i \in 1..s[1] |-> [j \in 1..s[2] |->
                      Vel(2 * seed + 3 * (i - 1) + (j - 1))]]

\* an array of shape s whose entries all carry the velocity c
UniformArray(s, c) == [i \in 1..s[1] |-> [j \in 1..s[2] |-> c]]

\* the positive velocities of VelValues, as fixed-point numbers
PositiveVels == {x \in {Vel(k) : k \in 0..(Len(VelValues) - 1)} : x > 0}

\* four beams of one shape with independent contents, four beams of every
\* combination of shapes, and four beams that all carry one positive value
BeamInputs ==
    {<<UniformArray(s, c), UniformArray(s, c),
       UniformArray(s, c), UniformArray(s, c)>> :
        s \in Shapes, c \in PositiveVels}
    \cup
    {<<GenArray(s, k1), GenArray(s, k2), GenArray(s, k3), GenArray(s, k4)>> :
        s \in Shapes, k1 \in Seeds, k2 \in Seeds, k3 \in Seeds, k4 \in Seeds}
    \cup
    {<<GenArray(s1, 0), GenArray(s2, 1), GenArray(s3, 2), GenArray(s4, 3)>> :
        s1 \in Shapes, s2 \in Shapes, s3 \in Shapes, s4 \in Shapes}

\* headings, pitches and rolls in degrees; orientation flags
Headings == {0, 30, 90, 225, 300}

Pitches == {-30, 0, 15, 45}

Rolls == {-45, 0, 30, 90, 180}

Verticals == {0, 1}

\* the lengths of the per-sample 1-D arrays
Lengths == 1..MaxN

\* per-sample angles of a batch of n samples whose first sample has the
\* angle a0: later samples differ from the first
AngleArray(n, a0, step) == [h \in 1..n |-> a0 + step * (h - 1)]

FlagArray(n, vf) == [h \in 1..n |-> (vf + h - 1) % 2]

\* orientation flags that are neither 0 nor 1
OtherFlags == {-1, 2}

\* flags of a batch whose odd samples carry the flag vf and whose even
\* samples are upward-looking
MixedFlagArray(n, vf) == [h \in 1..n |-> IF h % 2 = 1 THEN vf ELSE 1]

\* a 1-D array of n copies of c
ConstArray(n, c) == [h \in 1..n |-> c]

\* u, v, w of one shape with angles of as many samples and every attitude of
\* the first sample; every combination of shapes of u, v, w; every
\* combination of lengths of the four per-sample arrays; and a level
\* instrument (heading = pitch = roll = 0 in every sample)
Ins2EarthInputs ==
    {[u |-> GenArray(s, k), v |-> GenArray(s, k + 1), w |-> GenArray(s, k + 2),
      heading |-> AngleArray(s[1], hh, 45), pitch |-> AngleArray(s[1], pp, 15),
      roll |-> AngleArray(s[1], rr, 30), vertical |-> FlagArray(s[1], vf)] :
        s \in Shapes, k \in Seeds, hh \in Headings, pp \in Pitches,
        rr \in Rolls, vf \in Verticals}
    \cup
    {[u |-> GenArray(su, 0), v |-> GenArray(sv, 1), w |-> GenArray(sw, 2),
      heading |-> AngleArray(su[1], 30, 45), pitch |-> AngleArray(su[1], 15, 15),
      roll |-> AngleArray(su[1], 30, 30), vertical |-> FlagArray(su[1], 1)] :
        su \in Shapes, sv \in Shapes, sw \in Shapes}
    \cup
    {[u |-> GenArray(s, 0), v |-> GenArray(s, 1), w |-> GenArray(s, 2),
      heading |-> AngleArray(kh, 30, 45), pitch |-> AngleArray(kp, 15, 15),
      roll |-> AngleArray(kr, 30, 30), vertical |-> FlagArray(kv, 1)] :
        s \in Shapes,
        kh \in Lengths, kp \in Lengths, kr \in Lengths, kv \in Lengths}
    \cup
    {[u |-> GenArray(s, k), v |-> GenArray(s, k + 1), w |-> GenArray(s, k + 2),
      heading |-> ConstArray(s[1], 0), pitch |-> ConstArray(s[1], 0),
      roll |-> ConstArray(s[1], 0), vertical |-> FlagArray(s[1], vf)] :
        s \in Shapes, k \in Seeds, vf \in Verticals}
    \cup
    {[u |-> GenArray(s, 0), v |-> GenArray(s, 1), w |-> GenArray(s, 2),
      heading |-> AngleArray(s[1], 30, 45), pitch |-> AngleArray(s[1], 15, 15),
      roll |-> AngleArray(s[1], rr, 30), vertical |-> MixedFlagArray(s[1], vf)] :
        s \in Shapes, rr \in Rolls, vf \in OtherFlags}

\* declinations in degrees
Thetas == {-180, -135, -90, -60, -30, 0, 15, 45, 75, 90, 120, 180}

MagneticInputs ==
    {[theta |-> AngleArray(s[1], tt, 30),
      u |-> GenArray(s, k1), v |-> GenArray(s, k2)] :
        s \in Shapes, tt \in Thetas, k1 \in Seeds, k2 \in Seeds}
    \cup
    {[theta |-> AngleArray(kt, 30, 30),
      u |-> GenArray(su, 0), v |-> GenArray(sv, 1)] :
        kt \in Lengths, su \in Shapes, sv \in Shapes}
    \cup
    {[theta |-> ConstArray(s[1], 0), u |-> GenArray(s, k1), v |-> GenArray(s, k2)] :
        s \in Shapes, k1 \in Seeds, k2 \in Seeds}

\* the attitudes handed to the wrappers, in centidegrees, of a batch of n
\* samples: level and downward, and two that turn about all three axes
WrapperAttitudes(n) ==
    {[h |-> ConstArray(n, 0), p |-> ConstArray(n, 0),
      r |-> ConstArray(n, 0), vf |-> ConstArray(n, 0)],
     [h |-> AngleArray(n, 3000, 4500), p |-> AngleArray(n, 1500, 1500),
      r |-> AngleArray(n, -4500, 3000), vf |-> FlagArray(n, 1)],
     [h |-> AngleArray(n, 22500, 4500), p |-> AngleArray(n, -3000, 1500),
      r |-> AngleArray(n, 3000, 3000), vf |-> FlagArray(n, 0)]}

\* position, time and pressure of a batch of n samples: degrees north and
\* east, seconds since 1900-01-01, daPa
WrapperPositions(n) ==
    {[lat |-> ConstArray(n, 45), lon |-> ConstArray(n, -125),
      dt |-> AngleArray(n, 2000000000, 60), z |-> AngleArray(n, 50000, 1500)]}

\* the beams handed to the wrappers: b1..b4 and the fifth beam of the VADCP
WrapperBeams(s) ==
    {[b1 |-> GenArray(s, k), b2 |-> GenArray(s, k + 1),
      b3 |-> GenArray(s, k + 2), b4 |-> GenArray(s, k + 3),
      b5 |-> GenArray(s, k + 4)] : k \in Seeds}
    \cup
    {[b1 |-> UniformArray(s, Vel(0)), b2 |-> UniformArray(s, Vel(0)),
      b3 |-> UniformArray(s, Vel(0)), b4 |-> UniformArray(s, Vel(0)),
      b5 |-> GenArray(s, 1)]}

\* the arguments of the beam wrappers: beams, attitude and position of one
\* batch, and batches whose attitude arrays have another length than the
\* beams have samples
BeamWrapperInputs ==
    UNION {{[b |-> b, a |-> a, g |-> g] :
               b \in WrapperBeams(s),
               a \in WrapperAttitudes(s[1]),
               g \in WrapperPositions(s[1])} : s \in Shapes}
    \cup
    UNION {{[b |-> b, a |-> a, g |-> g] :
               b \in {[b1 |-> GenArray(<<nm[1], 1>>, 0),
                       b2 |-> GenArray(<<nm[1], 1>>, 1),
                       b3 |-> GenArray(<<nm[1], 1>>, 2),
                       b4 |-> GenArray(<<nm[1], 1>>, 3),
                       b5 |-> GenArray(<<nm[1], 1>>, 4)]},
               a \in WrapperAttitudes(nm[2]),
               g \in WrapperPositions(nm[1])} :
           nm \in {x \in Lengths \X Lengths : x[1] # x[2]}}

\* the Earth-frame velocities handed to the Earth wrappers, with the
\* position of the batch
EarthWrapperInputs ==
    UNION {{[u |-> GenArray(s, k), v |-> GenArray(s, k + 1),
             w |-> GenArray(s, k + 2), e |-> GenArray(s, k + 3), g |-> g] :
               k \in Seeds, g \in WrapperPositions(s[1])} : s \in Shapes}

\* largest number of bins asked of the bin-depth functions
MaxBins == 3

\* distances to the first bin and bin sizes, in centimetres
FirstBinDistances == {0, 200, 250}

BinSizes == {50, 100, 400}

\* sensor depths in metres, as fixed-point numbers: depths (positive) and
\* heights (negative)
SensorDepths ==
    {0, 50 * Scale, (-50) * Scale, 12 * Scale + Scale \div 2, (-3) * Scale}

\* orientation flags handed to the bin-depth functions
Orientations == {-1, 0, 1, 2}

BinDepthPd8Inputs ==
    [dist_first_bin : FirstBinDistances, bin_size : BinSizes,
     num_bins : 0..MaxBins, sensor_depth : SensorDepths,
     adcp_orientation : Orientations]

\* sensor pressures in daPa (1000 daPa = 1 dbar) and latitudes in degrees
Pressures == {0, 1000, 5000, 9000}

Latitudes == {-30, 0, 45, 75}

BinDepthInputs ==
    [dist_first_bin : {200, 250}, bin_size : {100, 400},
     num_bins : 0..MaxBins, pressure : Pressures,
     adcp_orientation : Orientations, latitude : Latitudes]

\* raw echo intensities in counts: every element differs from the others
EchoArray(s, c) == [i \in 1..s[1] |-> [j \in 1..s[2] |-> c + 10 * i + j]]

\* factory scale factors in dB per count: 0.45 and 0.61 are the nominal ones
EchoFactors == {(45 * Scale) \div 100, (61 * Scale) \div 100}

\* raw with a scalar factor, and raw with one factor per sample, per-sample
\* arrays of every length up to one more than the largest batch
BackscatterInputs ==
    {[raw |-> EchoArray(s, c), sfactor |-> [scalar |-> TRUE, val |-> <<f>>]] :
        s \in Shapes, c \in {0, 80}, f \in EchoFactors}
    \cup
    {[raw |-> EchoArray(s, c),
      sfactor |-> [scalar |-> FALSE, val |-> [i \in 1..k |-> f + 10 * (i - 1)]]] :
        s \in Shapes, c \in {0, 80}, f \in EchoFactors, k \in 1..(MaxN + 1)}

Init ==
    /\ pc = "idle"
    /\ fn = "none"
    /\ args = <<>>
    /\ ret = <<>>

\* a direct call of adcp_beam2ins(b1, b2, b3, b4)
Call_adcp_beam2ins ==
    /\ pc = "idle"
    /\ \E bb \in BeamInputs :
        /\ args' = [b1 |-> bb[1], b2 |-> bb[2], b3 |-> bb[3], b4 |-> bb[4]]
        /\ ret' = adcp_beam2ins(bb[1], bb[2], bb[3], bb[4])
    /\ fn' = "adcp_beam2ins"
    /\ pc' = "returned"

\* a direct call of adcp_ins2earth(u, v, w, heading, pitch, roll, vertical)
Call_adcp_ins2earth ==
    /\ pc = "idle"
    /\ \E x \in Ins2EarthInputs :
        /\ args' = x
        /\ ret' = adcp_ins2earth(x.u, x.v, x.w, x.heading, x.pitch, x.roll,
                                 x.vertical)
    /\ fn' = "adcp_ins2earth"
    /\ pc' = "returned"

\* a direct call of magnetic_correction(theta, u, v)
Call_magnetic_correction ==
    /\ pc = "idle"
    /\ \E x \in MagneticInputs :
        /\ args' = x
        /\ ret' = magnetic_correction(x.theta, x.u, x.v)
    /\ fn' = "magnetic_correction"
    /\ pc' = "returned"

\* a call of the wrapper adcp_beam_error(b1, b2, b3, b4)
Call_adcp_beam_error ==
    /\ pc = "idle"
    /\ \E bb \in BeamInputs :
        /\ args' = [b1 |-> bb[1], b2 |-> bb[2], b3 |-> bb[3], b4 |-> bb[4]]
        /\ ret' = adcp_beam_error(bb[1], bb[2], bb[3], bb[4])
    /\ fn' = "adcp_beam_error"
    /\ pc' = "returned"

\* the arguments (b1, b2, b3, b4, h, p, r, vf, lat, lon, z, dt) of a
\* horizontal beam wrapper
HorizontalArgs(x) ==
    [b1 |-> x.b.b1, b2 |-> x.b.b2, b3 |-> x.b.b3, b4 |-> x.b.b4,
     h |-> x.a.h, p |-> x.a.p, r |-> x.a.r, vf |-> x.a.vf,
     lat |-> x.g.lat, lon |-> x.g.lon, z |-> x.g.z, dt |-> x.g.dt]

\* the arguments (b1, b2, b3, b4, h, p, r, vf) of a vertical beam wrapper
VerticalArgs(x) ==
    [b1 |-> x.b.b1, b2 |-> x.b.b2, b3 |-> x.b.b3, b4 |-> x.b.b4,
     h |-> x.a.h, p |-> x.a.p, r |-> x.a.r, vf |-> x.a.vf]

\* the first statements of a horizontal beam wrapper f: the inputs are
\* forced to arrays and scaled to degrees and metres
EnterHorizontalBeam(f) ==
    /\ pc = "idle"
    /\ \E x \in BeamWrapperInputs :
        /\ args' = HorizontalArgs(x)
        /\ ret' = Frame(CentiToDeg(x.a.h), CentiToDeg(x.a.p), CentiToDeg(x.a.r),
                        x.a.vf, PressureToDepth(x.g.z),
                        x.g.lat, x.g.lon, x.g.dt)
    /\ fn' = f
    /\ pc' = After(f, <<>>)

\* the first statements of a vertical beam wrapper f
EnterVerticalBeam(f) ==
    /\ pc = "idle"
    /\ \E x \in BeamWrapperInputs :
        /\ args' = IF f = "vadcp_beam_vertical_true"
                   THEN [b1 |-> x.b.b1, b2 |-> x.b.b2, b3 |-> x.b.b3,
                         b4 |-> x.b.b4, b5 |-> x.b.b5,
                         h |-> x.a.h, p |-> x.a.p, r |-> x.a.r, vf |-> x.a.vf]
                   ELSE VerticalArgs(x)
        /\ ret' = Frame(CentiToDeg(x.a.h), CentiToDeg(x.a.p), CentiToDeg(x.a.r),
                        x.a.vf, Unset, Unset, Unset, Unset)
    /\ fn' = f
    /\ pc' = After(f, <<>>)

\* the first statements of an Earth-coordinate horizontal wrapper f
EnterHorizontalEarth(f) ==
    /\ pc = "idle"
    /\ \E x \in EarthWrapperInputs :
        /\ args' = [u |-> x.u, v |-> x.v, z |-> x.g.z,
                    lat |-> x.g.lat, lon |-> x.g.lon, dt |-> x.g.dt]
        /\ ret' = Frame(Unset, Unset, Unset, Unset, PressureToDepth(x.g.z),
                        x.g.lat, x.g.lon, x.g.dt)
    /\ fn' = f
    /\ pc' = After(f, <<>>)

Call_adcp_beam_eastward == EnterHorizontalBeam("adcp_beam_eastward")

Call_adcp_beam_northward == EnterHorizontalBeam("adcp_beam_northward")

Call_vadcp_beam_eastward == EnterHorizontalBeam("vadcp_beam_eastward")

Call_vadcp_beam_northward == EnterHorizontalBeam("vadcp_beam_northward")

Call_adcp_beam_vertical == EnterVerticalBeam("adcp_beam_vertical")

Call_vadcp_beam_vertical_est == EnterVerticalBeam("vadcp_beam_vertical_est")

Call_vadcp_beam_vertical_true == EnterVerticalBeam("vadcp_beam_vertical_true")

Call_adcp_earth_eastward == EnterHorizontalEarth("adcp_earth_eastward")

Call_adcp_earth_northward == EnterHorizontalEarth("adcp_earth_northward")

\* vadcp_beam_error(b1, b2, b3, b4): its first statements
Call_vadcp_beam_error ==
    /\ pc = "idle"
    /\ \E x \in BeamWrapperInputs :
        args' = [b1 |-> x.b.b1, b2 |-> x.b.b2, b3 |-> x.b.b3, b4 |-> x.b.b4]
    /\ ret' = Frame(Unset, Unset, Unset, Unset, Unset, Unset, Unset, Unset)
    /\ fn' = "vadcp_beam_error"
    /\ pc' = After("vadcp_beam_error", <<>>)

\* adcp_earth_vertical(w): nothing runs before the scaling
Call_adcp_earth_vertical ==
    /\ pc = "idle"
    /\ \E x \in EarthWrapperInputs : args' = [w |-> x.w]
    /\ ret' = Frame(Unset, Unset, Unset, Unset, Unset, Unset, Unset, Unset)
    /\ fn' = "adcp_earth_vertical"
    /\ pc' = After("adcp_earth_vertical", <<>>)

\* adcp_earth_error(e): nothing runs before the scaling
Call_adcp_earth_error ==
    /\ pc = "idle"
    /\ \E x \in EarthWrapperInputs : args' = [e |-> x.e]
    /\ ret' = Frame(Unset, Unset, Unset, Unset, Unset, Unset, Unset, Unset)
    /\ fn' = "adcp_earth_error"
    /\ pc' = After("adcp_earth_error", <<>>)

\* "u, v, w, e = adcp_beam2ins(b1, b2, b3, b4)" of a wrapper; the results a
\* wrapper binds to _ are computed all the same
Stage_adcp_beam2ins ==
    /\ pc = "adcp_beam2ins"
    /\ LET x == adcp_beam2ins(args.b1, args.b2, args.b3, args.b4)
           calls == Append(ret.calls, "adcp_beam2ins")
       IN  IF x.status # "ok"
           THEN ret' = Failed(calls) /\ pc' = "returned"
           ELSE /\ ret' = [ret EXCEPT !.u = x.u, !.v = x.v, !.w = x.w,
                                      !.e = x.e, !.calls = calls]
                /\ pc' = After(fn, calls)
    /\ UNCHANGED <<fn, args>>

\* "uu, vv, ww = adcp_ins2earth(u, v, w, h, p, r, vf)" of a wrapper
Stage_adcp_ins2earth ==
    /\ pc = "adcp_ins2earth"
    /\ LET x == adcp_ins2earth(ret.u, ret.v, VerticalFed(fn, ret, args),
                               ret.h, ret.p, ret.r, ret.vf)
           calls == Append(ret.calls, "adcp_ins2earth")
       IN  IF x.status # "ok"
           THEN ret' = Failed(calls) /\ pc' = "returned"
           ELSE /\ ret' = [ret EXCEPT !.uu = x.uu, !.vv = x.vv, !.ww = x.ww,
                                      !.calls = calls]
                /\ pc' = After(fn, calls)
    /\ UNCHANGED <<fn, args>>

\* "theta = magnetic_declination(lat, lon, dt, z)" of a wrapper
Stage_magnetic_declination ==
    /\ pc = "magnetic_declination"
    /\ LET a == DeclinationArgs(ret.lat, ret.lon, ret.dt, ret.z)
           calls == Append(ret.calls, "magnetic_declination")
       IN  /\ \E theta \in magnetic_declination(a[1], a[2], a[3], a[4]) :
                ret' = [ret EXCEPT !.theta = theta, !.calls = calls,
                                   !.decl_args = Append(@, a)]
           /\ pc' = After(fn, calls)
    /\ UNCHANGED <<fn, args>>

\* "u_cor, v_cor = magnetic_correction(theta, u, v)" of a wrapper
Stage_magnetic_correction ==
    /\ pc = "magnetic_correction"
    /\ LET uv == CorrectionInput(fn, ret, args)
           x == magnetic_correction(ret.theta, uv[1], uv[2])
           calls == Append(ret.calls, "magnetic_correction")
       IN  IF x.status # "ok"
           THEN ret' = Failed(calls) /\ pc' = "returned"
           ELSE /\ ret' = [ret EXCEPT !.u_cor = x.u_cor, !.v_cor = x.v_cor,
                                      !.calls = calls]
                /\ pc' = After(fn, calls)
    /\ UNCHANGED <<fn, args>>

\* the scaling written in place ("x /= 1000."): a wrapper that scales one of
\* its own arguments overwrites the caller's array
Stage_scale_inplace ==
    /\ pc = "scale"
    /\ ret' = [status |-> "ok",
               out |-> ScaleToMetres(Selected(fn, ret, args)),
               calls |-> Append(ret.calls, "scale"),
               loc |-> ret]
    /\ pc' = After(fn, Append(ret.calls, "scale"))
    /\ args' = IF fn = "adcp_earth_vertical"
               THEN [args EXCEPT !.w = ScaleToMetres(@)]
               ELSE IF fn = "adcp_earth_error"
               THEN [args EXCEPT !.e = ScaleToMetres(@)]
               ELSE args
    /\ UNCHANGED fn

\* "x = x / 1000." and the return of a wrapper; loc keeps the frame
Stage_scale ==
    /\ pc = "scale"
    /\ ret' = [status |-> "ok",
               out |-> ScaleToMetres(Selected(fn, ret, args)),
               calls |-> Append(ret.calls, "scale"),
               loc |-> ret]
    /\ pc' = After(fn, Append(ret.calls, "scale"))
    /\ UNCHANGED <<fn, args>>

\* a call of adcp_bin_depths_pd8(dist_first_bin, bin_size, num_bins,
\* sensor_depth, adcp_orientation)
Call_adcp_bin_depths_pd8 ==
    /\ pc = "idle"
    /\ \E x \in BinDepthPd8Inputs, division \in Divisions :
        /\ args' = x
        /\ ret' = adcp_bin_depths_pd8(x.dist_first_bin, x.bin_size, x.num_bins,
                                      x.sensor_depth, x.adcp_orientation,
                                      division)
    /\ fn' = "adcp_bin_depths_pd8"
    /\ pc' = "returned"

\* a call of adcp_bin_depths(dist_first_bin, bin_size, num_bins, pressure,
\* adcp_orientation, latitude)
Call_adcp_bin_depths ==
    /\ pc = "idle"
    /\ \E x \in BinDepthInputs, division \in Divisions :
        /\ args' = x
        /\ ret' = adcp_bin_depths(x.dist_first_bin, x.bin_size, x.num_bins,
                                  x.pressure, x.adcp_orientation, x.latitude,
                                  division)
    /\ fn' = "adcp_bin_depths"
    /\ pc' = "returned"

\* a call of adcp_backscatter(raw, sfactor)
Call_adcp_backscatter ==
    /\ pc = "idle"
    /\ \E x \in BackscatterInputs :
        /\ args' = x
        /\ ret' = adcp_backscatter(x.raw, x.sfactor)
    /\ fn' = "adcp_backscatter"
    /\ pc' = "returned"

\* the caller drops the returned arrays; nothing is kept between calls
Return ==
    /\ pc = "returned"
    /\ pc' = "idle"
    /\ fn' = "none"
    /\ args' = <<>>
    /\ ret' = <<>>

Next ==
    \/ Call_adcp_beam2ins
    \/ Call_adcp_ins2earth
    \/ Call_magnetic_correction
    \/ Call_adcp_beam_error
    \/ Call_adcp_beam_eastward
    \/ Call_adcp_beam_northward
    \/ Call_adcp_beam_vertical
    \/ Call_adcp_earth_eastward
    \/ Call_adcp_earth_northward
    \/ Call_adcp_earth_vertical
    \/ Call_adcp_earth_error
    \/ Call_vadcp_beam_eastward
    \/ Call_vadcp_beam_northward
    \/ Call_vadcp_beam_vertical_est
    \/ Call_vadcp_beam_vertical_true
    \/ Call_vadcp_beam_error
    \/ Call_adcp_bin_depths
    \/ Call_adcp_bin_depths_pd8
    \/ Call_adcp_backscatter
    \/ Stage_adcp_beam2ins
    \/ Stage_adcp_ins2earth
    \/ Stage_magnetic_declination
    \/ Stage_magnetic_correction
    \/ Stage_scale
    \/ Return

Spec == Init /\ [][Next]_vars

(***************************************************************************)
(* Properties.                                                             *)
(***************************************************************************)
Returned(f) == pc = "returned" /\ fn = f

Ok(f) == Returned(f) /\ ret.status = "ok"

\* the index sets of a 2-D array
Rows(x) == 1..Len(x)

Cols(x) == 1..Len(x[1])

\* C1: for four beam arrays of one shape adcp_beam2ins returns, element by
\* element, East = c*a*(b1 - b2), North = c*a*(b4 - b3),
\* Vertical = b*(b1 + b2 + b3 + b4), Error = d*(b1 + b2 - b3 - b4) with
\* a = 1/(2 sin 20), b = 1/(4 cos 20), d = a/sqrt(2), c = +1, and every
\* output has the shape of the inputs.
C1_BeamToInstrumentFormula ==
    (/\ Returned("adcp_beam2ins")
     /\ Shape(args.b2) = Shape(args.b1)
     /\ Shape(args.b3) = Shape(args.b1)
     /\ Shape(args.b4) = Shape(args.b1))
    => LET a == Div(Scale, 2 * SinDeg(20))
           b == Div(Scale, 4 * CosDeg(20))
           d == Div(a, Isqrt(2 * Scale * Scale))
           c == Scale
       IN  /\ ret.status = "ok"
           /\ \A o \in {ret.u, ret.v, ret.w, ret.e} : Shape(o) = Shape(args.b1)
           /\ \A i \in Rows(args.b1) : \A j \in Cols(args.b1) :
                /\ ret.u[i][j] = Mul(Mul(c, a), args.b1[i][j] - args.b2[i][j])
                /\ ret.v[i][j] = Mul(Mul(c, a), args.b4[i][j] - args.b3[i][j])
                /\ ret.w[i][j] = Mul(b, args.b1[i][j] + args.b2[i][j]
                                        + args.b3[i][j] + args.b4[i][j])
                /\ ret.e[i][j] = Mul(d, args.b1[i][j] + args.b2[i][j]
                                        - args.b3[i][j] - args.b4[i][j])

\* C1 happens: a (MaxN, MaxM) call whose beams all differ in some bin
C1_Witness ==
    /\ Ok("adcp_beam2ins")
    /\ \A x \in {args.b1, args.b2, args.b3, args.b4} : Shape(x) = <<MaxN, MaxM>>
    /\ args.b1[1][1] # args.b2[1][1]
    /\ args.b3[1][1] # args.b4[1][1]
    /\ ret.e[MaxN][MaxM] # 0

\* the three rotation matrices as the claim C2 writes them
C2_M1(cosH, sinH) ==
    <<<<cosH, sinH, 0>>, <<-sinH, cosH, 0>>, <<0, 0, Scale>>>>

C2_M2(cosP, sinP) ==
    <<<<Scale, 0, 0>>, <<0, cosP, -sinP>>, <<0, sinP, cosP>>>>

C2_M3(cosR, sinR) ==
    <<<<cosR, 0, sinR>>, <<0, Scale, 0>>, <<-sinR, 0, cosR>>>>

\* entry (i, l) of the product A * B * C of three 3x3 matrices
C2_Product(A, B, C, i, l) ==
    RoundDiv(  A[i][1] * B[1][1] * C[1][l] + A[i][1] * B[1][2] * C[2][l]
             + A[i][1] * B[1][3] * C[3][l] + A[i][2] * B[2][1] * C[1][l]
             + A[i][2] * B[2][2] * C[2][l] + A[i][2] * B[2][3] * C[3][l]
             + A[i][3] * B[3][1] * C[1][l] + A[i][3] * B[3][2] * C[2][l]
             + A[i][3] * B[3][3] * C[3][l],
             Scale * Scale)

\* the combined matrix M1(heading) * M2(P) * M3(R) of sample h of the call
C2_Combined(h) ==
    LET A == C2_M1(CosDeg(args.heading[h]), SinDeg(args.heading[h]))
        B == C2_M2(ret.loc.cos_P[h], ret.loc.sin_P[h])
        C == C2_M3(CosDeg(ret.loc.R[h]), SinDeg(ret.loc.R[h]))
    IN  [i \in 1..3 |-> [l \in 1..3 |-> C2_Product(A, B, C, i, l)]]

\* C2: for every sample h the combined matrix is M1(heading) * M2(P) * M3(R)
\* in that order, and for every bin m (uu, vv, ww)[h, m] is that one matrix
\* times (u, v, w)[h, m].
C2_CombinedMatrixOrder ==
    Ok("adcp_ins2earth")
    => \A h \in Rows(args.u) :
         LET MMh == C2_Combined(h)
             out == <<ret.uu, ret.vv, ret.ww>>
         IN  /\ ret.loc.MM[h] = MMh
             /\ \A m \in Cols(args.u) : \A i \in 1..3 :
                  out[i][h][m] =
                      RoundDiv(  MMh[i][1] * args.u[h][m]
                               + MMh[i][2] * At(args.v, h, m)
                               + MMh[i][3] * At(args.w, h, m), Scale)

\* C2 happens: a sample with several bins for which the three rotations do
\* not commute, so the order of the product shows
C2_Witness ==
    /\ Ok("adcp_ins2earth")
    /\ Shape(args.u) = <<MaxN, MaxM>>
    /\ \E h \in Rows(args.u) :
         LET A == C2_M1(CosDeg(args.heading[h]), SinDeg(args.heading[h]))
             B == C2_M2(ret.loc.cos_P[h], ret.loc.sin_P[h])
             C == C2_M3(CosDeg(ret.loc.R[h]), SinDeg(ret.loc.R[h]))
         IN  /\ \E i, l \in 1..3 :
                  C2_Product(A, B, C, i, l) # C2_Product(C, B, A, i, l)
             /\ args.u[h][1] # args.u[h][2]

\* C3: the effective roll is roll + 180 for an upward sample (flag 1) and
\* roll for a downward one (flag 0); the corrected pitch is
\* atan(tan(pitch) * cos(roll)) with the roll as given, never R.
C3_RollOffsetAndPitch ==
    Ok("adcp_ins2earth")
    => \A h \in Rows(args.u) :
         LET roll_h == At1(args.roll, h)
             pitch_h == At1(args.pitch, h)
             vf_h == At1(args.vertical, h)
             x == Mul(TanDeg(pitch_h), CosDeg(roll_h))
         IN  /\ vf_h = 1 => ret.loc.R[h] = roll_h + 180
             /\ vf_h = 0 => ret.loc.R[h] = roll_h
             /\ ret.loc.cos_P[h] = CosArctan(x)
             /\ ret.loc.sin_P[h] = SinArctan(x)

\* C3 happens: an upward sample whose corrected pitch would differ if it
\* were computed from R
C3_Witness ==
    /\ Ok("adcp_ins2earth")
    /\ \E h \in Rows(args.u) :
         /\ At1(args.vertical, h) = 1
         /\ ret.loc.R[h] = At1(args.roll, h) + 180
         /\ ret.loc.sin_P[h] #
              SinArctan(Mul(TanDeg(At1(args.pitch, h)), CosDeg(ret.loc.R[h])))

\* C4: for every sample h with declination theta and every bin k,
\* u_cor[h, k] = cos(theta) u[h, k] + sin(theta) v[h, k] and
\* v_cor[h, k] = -sin(theta) u[h, k] + cos(theta) v[h, k]; the outputs have
\* the (N, M) shape of u and v.
C4_MagneticCorrectionFormula ==
    (/\ Returned("magnetic_correction")
     /\ Len(args.theta) = Len(args.u)
     /\ Shape(args.v) = Shape(args.u))
    => /\ ret.status = "ok"
       /\ Shape(ret.u_cor) = Shape(args.u)
       /\ Shape(ret.v_cor) = Shape(args.u)
       /\ \A h \in Rows(args.u) : \A k \in Cols(args.u) :
            LET cosT == CosDeg(args.theta[h])
                sinT == SinDeg(args.theta[h])
            IN  /\ ret.u_cor[h][k] =
                     RoundDiv(cosT * args.u[h][k] + sinT * args.v[h][k], Scale)
                /\ ret.v_cor[h][k] =
                     RoundDiv(-sinT * args.u[h][k] + cosT * args.v[h][k], Scale)

\* C4 happens: a full batch rotated by an angle that mixes u and v
C4_Witness ==
    /\ Ok("magnetic_correction")
    /\ Shape(args.u) = <<MaxN, MaxM>>
    /\ Shape(args.v) = <<MaxN, MaxM>>
    /\ Len(args.theta) = MaxN
    /\ SinDeg(args.theta[1]) > 0
    /\ CosDeg(args.theta[1]) > 0
    /\ args.u[1][1] # 0
    /\ args.v[1][1] # 0
    /\ ret.u_cor[1][1] # args.u[1][1]

\* the call of C5's right-hand side: the same inputs with 180 added to the
\* roll of every upward sample and every orientation flag set to 0 (downward)
C5_DownwardCall ==
    adcp_ins2earth(args.u, args.v, args.w, args.heading, args.pitch,
        [h \in 1..Len(args.roll) |->
            args.roll[h] + (IF args.vertical[h] = 1 THEN 180 ELSE 0)],
        [h \in 1..Len(args.roll) |-> 0])

C5_SameAsDownwardCall ==
    /\ C5_DownwardCall.status = "ok"
    /\ C5_DownwardCall.uu = ret.uu
    /\ C5_DownwardCall.vv = ret.vv
    /\ C5_DownwardCall.ww = ret.ww

\* C5 as claimed: adcp_ins2earth with orientation flag 1 and roll r returns
\* the same (East, North, Vertical) as with flag 0 and roll r + 180, for
\* every heading, pitch, roll and velocity.
C5_Original ==
    (Ok("adcp_ins2earth") /\ Len(args.roll) = Len(args.vertical))
    => C5_SameAsDownwardCall

\* C5 amended: the two calls return the same when the pitch of every upward
\* sample is 0; otherwise the corrected pitch, computed from the roll as
\* given, changes sign when the 180 degrees are put into the roll itself.
C5_FlagEqualsRollOffsetAtZeroPitch ==
    (/\ Ok("adcp_ins2earth")
     /\ Len(args.roll) = Len(args.vertical)
     /\ Len(args.pitch) = Len(args.vertical)
     /\ \A h \in 1..Len(args.vertical) :
            args.vertical[h] = 1 => args.pitch[h] = 0)
    => C5_SameAsDownwardCall

\* C5 happens: an upward sample with zero pitch, turned in heading and roll
C5_Witness ==
    /\ Ok("adcp_ins2earth")
    /\ Len(args.roll) = Len(args.vertical)
    /\ Len(args.pitch) = Len(args.vertical)
    /\ Shape(args.u) = <<MaxN, MaxM>>
    /\ \A h \in 1..Len(args.vertical) : args.vertical[h] = 1 => args.pitch[h] = 0
    /\ \E h \in 1..Len(args.vertical) :
         /\ args.vertical[h] = 1
         /\ SinDeg(args.roll[h]) # 0
         /\ CosDeg(args.roll[h]) # 0
         /\ SinDeg(args.heading[h]) # 0
         /\ ret.ww[h][1] # 0

\* the bin counts (trailing dimensions) of a set of arrays disagree
BinsDiffer(xs) == \E x, y \in xs : Shape(x)[2] # Shape(y)[2]

\* C6 as claimed: adcp_beam2ins, and the wrapper that calls it, given beam
\* arrays whose bin counts differ, fails and returns no result.
C6_Original ==
    ((Returned("adcp_beam2ins") \/ Returned("adcp_beam_error"))
     /\ BinsDiffer({args.b1, args.b2, args.b3, args.b4}))
    => ret.status = "ValueError"

\* C7 as claimed: magnetic_correction given a theta whose length is not the
\* number of samples of u and v, or u and v of different shapes, fails and
\* returns no result.
C7_Original ==
    (Returned("magnetic_correction")
     /\ (Len(args.theta) # Len(args.u) \/ Shape(args.v) # Shape(args.u)))
    => ret.status = "ValueError"

\* C8 as claimed: adcp_ins2earth given a heading, pitch, roll or orientation
\* array whose length is not the number of samples of the velocities, or
\* u, v, w of different shapes, fails and returns no result.
C8_Original ==
    (Returned("adcp_ins2earth")
     /\ \/ \E a \in {args.heading, args.pitch, args.roll, args.vertical} :
              Len(a) # Len(args.u)
        \/ Shape(args.v) # Shape(args.u)
        \/ Shape(args.w) # Shape(args.u))
    => ret.status = "ValueError"

\* the relative precision to which results of the rounded arithmetic agree
\* (half a percent), as a fixed-point number
Tolerance == Scale \div 200

\* x and y agree within Tolerance of the magnitude mag, give or take one unit
Close(x, y, mag) == Abs(x - y) <= Mul(Tolerance, mag) + 1

\* the second call of C9: magnetic_correction with -theta on the result
C9_Back ==
    magnetic_correction([h \in 1..Len(args.theta) |-> -args.theta[h]],
                        ret.u_cor, ret.v_cor)

\* C9: magnetic_correction with theta and then with -theta on the result
\* returns the original (East, North) in every sample and bin, to within the
\* rounding of the arithmetic.
C9_RoundTrip ==
    (/\ Ok("magnetic_correction")
     /\ Len(args.theta) = Len(args.u)
     /\ Shape(args.v) = Shape(args.u))
    => /\ C9_Back.status = "ok"
       /\ Shape(C9_Back.u_cor) = Shape(args.u)
       /\ Shape(C9_Back.v_cor) = Shape(args.v)
       /\ \A h \in Rows(args.u) : \A k \in Cols(args.u) :
            LET mag == Abs(args.u[h][k]) + Abs(args.v[h][k])
            IN  /\ Close(C9_Back.u_cor[h][k], args.u[h][k], mag)
                /\ Close(C9_Back.v_cor[h][k], args.v[h][k], mag)

\* C9 happens: a full batch turned by an angle in [-180, 180] that changes
\* both components, and turned back
C9_Witness ==
    /\ Ok("magnetic_correction")
    /\ Shape(args.u) = <<MaxN, MaxM>>
    /\ Shape(args.v) = <<MaxN, MaxM>>
    /\ Len(args.theta) = MaxN
    /\ \A h \in 1..MaxN : args.theta[h] >= -180 /\ args.theta[h] <= 180
    /\ SinDeg(args.theta[1]) # 0
    /\ CosDeg(args.theta[1]) # 0
    /\ ret.u_cor[1][1] # args.u[1][1]
    /\ ret.v_cor[1][1] # args.v[1][1]
    /\ C9_Back.status = "ok"

\* entry (i, j) of A times its transpose, A an n x n matrix
Gram(A, n, i, j) == RoundDiv(SumSeq([k \in 1..n |-> A[i][k] * A[j][k]]), Scale)

\* A times its transpose is the identity, to within Tolerance
Orthogonal(A, n) ==
    \A i, j \in 1..n :
        Abs(Gram(A, n, i, j) - (IF i = j THEN Scale ELSE 0)) <= Tolerance

\* the square of a velocity, in units of (0.01 mm/s)^2
Sq(x) == RoundDiv(x, 10) * RoundDiv(x, 10)

\* two squared magnitudes agree within Tolerance
SameMagnitude(nin, nout) == Abs(nout - nin) <= Mul(Tolerance, nin) + 10

\* C10: the composed matrix M1*M2*M3 of every sample of adcp_ins2earth and
\* the 2x2 matrix of every sample of magnetic_correction are orthogonal, so
\* u^2 + v^2 + w^2 is preserved by adcp_ins2earth and u^2 + v^2 by
\* magnetic_correction in every sample and bin (to within the rounding of
\* the arithmetic).
C10_Orthogonality ==
    /\ Ok("adcp_ins2earth")
       => \A h \in Rows(args.u) :
            /\ Orthogonal(ret.loc.MM[h], 3)
            /\ \A m \in Cols(args.u) :
                 SameMagnitude(
                     Sq(args.u[h][m]) + Sq(At(args.v, h, m)) + Sq(At(args.w, h, m)),
                     Sq(ret.uu[h][m]) + Sq(ret.vv[h][m]) + Sq(ret.ww[h][m]))
    /\ Ok("magnetic_correction")
       => \A h \in Rows(ret.u_cor) :
            /\ Orthogonal(ret.loc.M[h], 2)
            /\ \A k \in Cols(ret.u_cor) :
                 SameMagnitude(
                     Sq(At(args.u, h, k)) + Sq(At(args.v, h, k)),
                     Sq(ret.u_cor[h][k]) + Sq(ret.v_cor[h][k]))

\* C10 happens: an upward sample turned about all three axes, whose
\* velocity changes in every component
C10_Witness ==
    /\ Ok("adcp_ins2earth")
    /\ Shape(args.u) = <<MaxN, MaxM>>
    /\ \E h \in Rows(args.u) :
         /\ At1(args.vertical, h) = 1
         /\ SinDeg(args.heading[h]) # 0 /\ CosDeg(args.heading[h]) # 0
         /\ ret.loc.sin_P[h] # 0
         /\ SinDeg(ret.loc.R[h]) # 0 /\ CosDeg(ret.loc.R[h]) # 0
         /\ ret.uu[h][1] # args.u[h][1]
         /\ ret.vv[h][1] # At(args.v, h, 1)
         /\ ret.ww[h][1] # At(args.w, h, 1)
         /\ Sq(args.u[h][1]) + Sq(At(args.v, h, 1)) + Sq(At(args.w, h, 1)) > 0

\* the constants k of C11, as fixed-point numbers: -1, 1/2, 2 and 3/10
ScaleFactors == {-Scale, Scale \div 2, 2 * Scale, (3 * Scale) \div 10}

\* k * b element by element
ScaleBy(k, b) == [i \in 1..Len(b) |-> [j \in 1..Len(b[1]) |-> Mul(k, b[i][j])]]

\* the first call of C11: adcp_beam2ins on the beams of the call, each times k
C11_Scaled(k) ==
    adcp_beam2ins(ScaleBy(k, args.b1), ScaleBy(k, args.b2),
                  ScaleBy(k, args.b3), ScaleBy(k, args.b4))

\* C11: for every constant k, adcp_beam2ins(k*b1, k*b2, k*b3, k*b4) is k times
\* adcp_beam2ins(b1, b2, b3, b4) in East, North, Vertical and Error, in
\* every sample and bin (to within the rounding of the arithmetic).
C11_Linearity ==
    Ok("adcp_beam2ins")
    => \A k \in ScaleFactors :
         LET s == C11_Scaled(k)
         IN  /\ s.status = "ok"
             /\ \A o \in {"u", "v", "w", "e"} :
                  /\ Shape(s[o]) = Shape(ret[o])
                  /\ \A i \in Rows(ret[o]) : \A j \in Cols(ret[o]) :
                       Close(s[o][i][j], Mul(k, ret[o][i][j]),
                             Abs(Mul(k, ret[o][i][j])))

\* C11 happens: a full batch whose four outputs are all non-zero in some
\* bin, so that scaling changes each of them
C11_Witness ==
    /\ Ok("adcp_beam2ins")
    /\ Shape(args.b1) = <<MaxN, MaxM>>
    /\ \E i \in Rows(ret.w) : \E j \in Cols(ret.w) :
         /\ ret.u[i][j] # 0 /\ ret.v[i][j] # 0
         /\ ret.w[i][j] # 0 /\ ret.e[i][j] # 0
         /\ \A k \in ScaleFactors \ {Scale} :
              C11_Scaled(k).w[i][j] # ret.w[i][j]

\* the wrapper fn has run the stage st and has not failed
Ran(st) ==
    /\ fn \in Staged
    /\ pc # "idle"
    /\ ret.status \in {"running", "ok"}
    /\ \E k \in 1..Len(ret.calls) : ret.calls[k] = st

\* the local variables of the running or returned wrapper
FrameNow == IF ret.status = "ok" THEN ret.loc ELSE ret

\* every entry of the 2-D array x satisfies x[i][j] = c
AllEqual(x, c) == \A i \in Rows(x) : \A j \in Cols(x) : x[i][j] = c

\* the four beams of the call all carry one positive value, the attitude is
\* level (heading = pitch = roll = 0) and the instrument looks down
C12_UniformLevelDownward ==
    /\ args.b1[1][1] > 0
    /\ \A b \in {args.b1, args.b2, args.b3, args.b4} :
         AllEqual(b, args.b1[1][1])
    /\ \A a \in {args.h, args.p, args.r, args.vf} :
         \A k \in 1..Len(a) : a[k] = 0

\* C12: when the four beams carry one positive value and heading = pitch =
\* roll = 0 with orientation 0, adcp_beam2ins followed by adcp_ins2earth
\* gives East = 0, North = 0, Error = 0 and Vertical > 0 in every sample and
\* bin.
C12_UniformPush ==
    (/\ Ran("adcp_ins2earth")
     /\ fn # "vadcp_beam_vertical_true"
     /\ C12_UniformLevelDownward)
    => /\ Shape(FrameNow.uu) = Shape(args.b1)
       /\ AllEqual(FrameNow.uu, 0)
       /\ AllEqual(FrameNow.vv, 0)
       /\ AllEqual(FrameNow.e, 0)
       /\ \A i \in Rows(FrameNow.ww) : \A j \in Cols(FrameNow.ww) :
            FrameNow.ww[i][j] > 0

\* C12 happens: a full batch of uniform beams at 100 mm/s, level and
\* downward, has gone through both transforms
C12_Witness ==
    /\ Ran("adcp_ins2earth")
    /\ fn # "vadcp_beam_vertical_true"
    /\ C12_UniformLevelDownward
    /\ Shape(args.b1) = <<MaxN, MaxM>>
    /\ args.b1[1][1] = 100 * Scale
    /\ FrameNow.ww[MaxN][MaxM] > 0

\* value k (from 0) of the bin depths the claim C13 states, from the sensor
\* depth sd in metres
C13_Stated(sd, k) ==
    IF args.adcp_orientation = 1
    THEN sd - (RoundDiv(args.dist_first_bin * Scale, 100)
               + k * RoundDiv(args.bin_size * Scale, 100))
    ELSE sd + RoundDiv(args.dist_first_bin * Scale, 100)
            + k * RoundDiv(args.bin_size * Scale, 100)

\* C13 as claimed: adcp_bin_depths_pd8 returns num_bins values; value k is
\* sensor_depth + dist_first_bin/100 + k * bin_size/100 for orientation 0 and
\* sensor_depth - (dist_first_bin/100 + k * bin_size/100) for orientation 1.
C13_Original ==
    (Returned("adcp_bin_depths_pd8") /\ args.adcp_orientation \in {0, 1})
    => /\ ret.status = "ok"
       /\ Len(ret.bin_depths_pd8) = args.num_bins
       /\ \A k \in 0..(args.num_bins - 1) :
            ret.bin_depths_pd8[k + 1] = C13_Stated(args.sensor_depth, k)

\* C13 as claimed, for the sensor depths that are depths (not negative), where
\* the sign of the sensor depth plays no part: adcp_bin_depths_pd8 returns
\* num_bins values; value k is sensor_depth + dist_first_bin/100 + k *
\* bin_size/100 for orientation 0 and sensor_depth - (dist_first_bin/100 + k *
\* bin_size/100) for orientation 1, so consecutive values are bin_size/100
\* apart.
C13_OriginalForDepths ==
    (/\ Returned("adcp_bin_depths_pd8")
     /\ args.adcp_orientation \in {0, 1}
     /\ args.sensor_depth >= 0)
    => /\ ret.status = "ok"
       /\ Len(ret.bin_depths_pd8) = args.num_bins
       /\ \A k \in 0..(args.num_bins - 1) :
            ret.bin_depths_pd8[k + 1] = C13_Stated(args.sensor_depth, k)
       /\ \A k \in 1..(args.num_bins - 1) :
            Abs(ret.bin_depths_pd8[k + 1] - ret.bin_depths_pd8[k])
                = RoundDiv(args.bin_size * Scale, 100)

\* C14 as claimed: adcp_bin_depths hands z_from_p the pressure in decibars
\* (the decapascal input divided by 1000) with the latitude, and the sensor
\* depth so obtained is the base the bin offsets are added to (downward) or
\* subtracted from (upward).
C14_Original ==
    Returned("adcp_bin_depths")
    => LET dbar == RoundDiv(args.pressure * Scale, 1000)
           base == z_from_p(dbar, args.latitude)
           offs == [k \in 1..args.num_bins |->
                      RoundDiv(args.dist_first_bin * Scale, 100)
                      + (k - 1) * RoundDiv(args.bin_size * Scale, 100)]
       IN  /\ ret.status = "ok"
           /\ ret.loc.z_from_p_p = dbar
           /\ ret.loc.sensor_depth = base
           /\ Len(ret.bin_depths) = args.num_bins
           /\ \A k \in 1..args.num_bins :
                ret.bin_depths[k] =
                    IF args.adcp_orientation = 1 THEN base - offs[k]
                    ELSE base + offs[k]

\* the stages the claim C15 names for the beam-coordinate horizontal
\* wrappers and for the Earth-coordinate ones
C15_BeamOrder ==
    <<"adcp_beam2ins", "adcp_ins2earth", "magnetic_declination",
      "magnetic_correction", "scale">>

C15_EarthOrder == <<"magnetic_declination", "magnetic_correction", "scale">>

\* the stages run so far are the first ones of the sequence order
C15_PrefixOf(order) ==
    /\ Len(ret.calls) <= Len(order)
    /\ \A k \in 1..Len(ret.calls) : ret.calls[k] = order[k]

\* C15: a beam-coordinate horizontal wrapper runs adcp_beam2ins,
\* adcp_ins2earth, the declination lookup, magnetic_correction and the
\* division by 1000 in that order; an Earth-coordinate wrapper runs only the
\* last three, the correction taking the supplied u and v; an eastward
\* wrapper returns the first and a northward wrapper the second component of
\* the corrected pair.
C15_StageOrder ==
    /\ (fn \in HorizontalBeam /\ pc # "idle")
       => /\ C15_PrefixOf(C15_BeamOrder)
          /\ ret.status = "ok" => ret.calls = C15_BeamOrder
          /\ ret.status = "running" /\ ret.u_cor # Unset
             => LET x == magnetic_correction(ret.theta, ret.uu, ret.vv)
                IN  ret.u_cor = x.u_cor /\ ret.v_cor = x.v_cor
    /\ (fn \in HorizontalEarth /\ pc # "idle")
       => /\ C15_PrefixOf(C15_EarthOrder)
          /\ ret.status = "ok" => ret.calls = C15_EarthOrder
          /\ ret.status = "running" /\ ret.u_cor # Unset
             => LET x == magnetic_correction(ret.theta, args.u, args.v)
                IN  ret.u_cor = x.u_cor /\ ret.v_cor = x.v_cor
    /\ (fn \in HorizontalBeam \cup HorizontalEarth /\ pc = "returned"
        /\ ret.status = "ok")
       => /\ fn \in Eastward => ret.out = ScaleToMetres(ret.loc.u_cor)
          /\ fn \in Northward => ret.out = ScaleToMetres(ret.loc.v_cor)

\* C15 happens: a beam-coordinate horizontal wrapper has run its five stages
\* on a full batch whose corrected components differ
C15_Witness ==
    /\ fn \in HorizontalBeam
    /\ ret.calls = C15_BeamOrder
    /\ pc = "returned"
    /\ ret.status = "ok"
    /\ Shape(ret.out) = <<MaxN, MaxM>>
    /\ ret.loc.u_cor # ret.loc.v_cor
    /\ ScaleToMetres(ret.loc.u_cor) # ScaleToMetres(ret.loc.v_cor)
    /\ SinDeg(ret.loc.theta[1]) # 0

\* adcp_ins2earth on the East and North components adcp_beam2ins computes
\* from the beams of the call and on the vertical component w, with the
\* attitude of the wrapper's frame
C16_Rotation(w) ==
    LET b == adcp_beam2ins(args.b1, args.b2, args.b3, args.b4)
    IN  adcp_ins2earth(b.u, b.v, w, ret.loc.h, ret.loc.p, ret.loc.r,
                       ret.loc.vf)

\* the four-beam vertical estimate b * (b1 + b2 + b3 + b4) of the call
C16_Estimate == adcp_beam2ins(args.b1, args.b2, args.b3, args.b4).w

\* C16: vadcp_beam_vertical_true returns the vertical Earth component,
\* divided by 1000, of adcp_ins2earth fed with u and v of adcp_beam2ins and
\* with beam 5 as measured in place of w (the four-beam estimate is not
\* used); vadcp_beam_vertical_est returns the same with the four-beam
\* estimate fed in.
C16_TrueVerticalFeedsBeam5 ==
    /\ Ok("vadcp_beam_vertical_true")
       => /\ ret.calls = <<"adcp_beam2ins", "adcp_ins2earth", "scale">>
          /\ C16_Rotation(args.b5).status = "ok"
          /\ ret.loc.ww = C16_Rotation(args.b5).ww
          /\ ret.out = ScaleToMetres(C16_Rotation(args.b5).ww)
    /\ Ok("vadcp_beam_vertical_est")
       => /\ ret.calls = <<"adcp_beam2ins", "adcp_ins2earth", "scale">>
          /\ C16_Rotation(C16_Estimate).status = "ok"
          /\ ret.loc.ww = C16_Rotation(C16_Estimate).ww
          /\ ret.out = ScaleToMetres(C16_Rotation(C16_Estimate).ww)

\* C16 happens: vadcp_beam_vertical_true has returned a full batch, tilted,
\* for which the four-beam estimate would have given another result
C16_Witness ==
    /\ Ok("vadcp_beam_vertical_true")
    /\ Shape(ret.out) = <<MaxN, MaxM>>
    /\ args.b5 # C16_Estimate
    /\ ret.loc.p[1] # 0
    /\ ret.out # ScaleToMetres(C16_Rotation(C16_Estimate).ww)

\* the 1-D array a of centidegrees is the array d of degrees times 100
C17_Centi(a, d) ==
    /\ Len(d) = Len(a)
    /\ \A k \in 1..Len(a) : a[k] = 100 * d[k]

\* the depth in m of a pressure z in daPa: z / 1000 * 1.019716, to within
\* the rounding of the arithmetic (one millimetre)
C17_Depth(z, depth) == Abs(1000000 * (depth - z) - 19716 * z) <= 1000000

\* out is the velocity x in mm/s divided by 1000, once
C17_ScaledOnce(x, out) ==
    /\ Shape(out) = Shape(x)
    /\ \A i \in Rows(x) : \A j \in Cols(x) :
         Abs(1000 * out[i][j] - x[i][j]) <= 500

\* C17: in every beam wrapper the heading, pitch and roll handed to
\* adcp_ins2earth are the centidegree inputs divided by 100, the depth handed
\* to the declination provider is the pressure in daPa divided by 1000 and
\* multiplied by 1.019716, and the velocity returned is the internal mm/s
\* result divided by 1000, once.
C17_UnitConversions ==
    /\ (fn \in HorizontalBeam \cup VerticalBeam /\ Ran("adcp_ins2earth"))
       => /\ C17_Centi(args.h, FrameNow.h)
          /\ C17_Centi(args.p, FrameNow.p)
          /\ C17_Centi(args.r, FrameNow.r)
          /\ LET x == adcp_ins2earth(FrameNow.u, FrameNow.v,
                                     VerticalFed(fn, FrameNow, args),
                                     [k \in 1..Len(args.h) |-> args.h[k] \div 100],
                                     [k \in 1..Len(args.p) |-> args.p[k] \div 100],
                                     [k \in 1..Len(args.r) |-> args.r[k] \div 100],
                                     args.vf)
             IN  /\ FrameNow.uu = x.uu
                 /\ FrameNow.vv = x.vv
                 /\ FrameNow.ww = x.ww
    /\ (fn \in HorizontalBeam /\ Ran("magnetic_declination"))
       => /\ Len(FrameNow.decl_args[1][4]) = Len(args.z)
          /\ \A k \in 1..Len(args.z) :
               C17_Depth(args.z[k], FrameNow.decl_args[1][4][k])
    /\ (fn \in HorizontalBeam \cup VerticalBeam \cup ErrorBeam /\ Ran("scale"))
       => /\ Cardinality({k \in 1..Len(ret.calls) : ret.calls[k] = "scale"}) = 1
          /\ fn \in Eastward => C17_ScaledOnce(ret.loc.u_cor, ret.out)
          /\ fn \in Northward => C17_ScaledOnce(ret.loc.v_cor, ret.out)
          /\ fn \in VerticalBeam => C17_ScaledOnce(ret.loc.ww, ret.out)
          /\ fn \in ErrorBeam => C17_ScaledOnce(ret.loc.e, ret.out)

\* C17 happens: a horizontal beam wrapper has returned a full batch taken
\* with a tilted attitude at a depth below the surface
C17_Witness ==
    /\ fn \in HorizontalBeam
    /\ Ran("scale")
    /\ Shape(ret.out) = <<MaxN, MaxM>>
    /\ args.h[1] # 0 /\ args.p[1] # 0 /\ args.r[1] # 0
    /\ args.z[1] > 0
    /\ ret.loc.decl_args[1][4][1] > 0
    /\ ret.out[1][1] # 0

\* the number of calls of the declination provider made so far
C18_Lookups ==
    Cardinality({k \in 1..Len(ret.calls) : ret.calls[k] = "magnetic_declination"})

\* C18: every horizontal wrapper calls the declination provider once, with
\* (latitude, longitude, timestamp, depth in m) in that order, and hands the
\* angle it returns to magnetic_correction as it is, whatever its value;
\* the vertical and error wrappers never call it.
C18_DeclinationLookup ==
    /\ (fn \in HorizontalBeam \cup HorizontalEarth /\ pc # "idle")
       => /\ C18_Lookups <= 1
          /\ ret.status = "ok" => C18_Lookups = 1
          /\ Ran("magnetic_declination")
             => /\ Len(FrameNow.decl_args) = 1
                /\ Len(FrameNow.decl_args[1]) = 4
                /\ FrameNow.decl_args[1][1] = args.lat
                /\ FrameNow.decl_args[1][2] = args.lon
                /\ FrameNow.decl_args[1][3] = args.dt
                /\ Len(FrameNow.decl_args[1][4]) = Len(args.z)
                /\ \A k \in 1..Len(args.z) :
                     C17_Depth(args.z[k], FrameNow.decl_args[1][4][k])
                /\ FrameNow.theta \in
                       magnetic_declination(args.lat, args.lon, args.dt,
                                            FrameNow.decl_args[1][4])
          /\ Ran("magnetic_correction")
             => LET uv == IF fn \in HorizontalBeam
                          THEN <<FrameNow.uu, FrameNow.vv>>
                          ELSE <<args.u, args.v>>
                    x == magnetic_correction(FrameNow.theta, uv[1], uv[2])
                IN  /\ x.status = "ok"
                    /\ FrameNow.u_cor = x.u_cor
                    /\ FrameNow.v_cor = x.v_cor
    /\ (fn \in VerticalBeam \cup ErrorBeam \cup ScaleOnly /\ pc # "idle")
       => /\ C18_Lookups = 0
          /\ pc # "magnetic_declination"
          /\ ret.status = "running" => ret.theta = Unset /\ ret.decl_args = <<>>
          /\ ret.status = "ok"
             => ret.loc.theta = Unset /\ ret.loc.decl_args = <<>>

\* C18 happens: a horizontal wrapper has returned after one lookup that
\* answered an angle beyond a full turn, and the correction was made with it
C18_Witness ==
    /\ fn \in HorizontalBeam \cup HorizontalEarth
    /\ Ran("scale")
    /\ C18_Lookups = 1
    /\ ret.loc.theta[1] > 360
    /\ args.lat # args.lon
    /\ ret.loc.u_cor # CorrectionInput(fn, ret.loc, args)[1]

\* adcp_ins2earth on sample h, bin m of the call alone: a batch of one
\* sample with one bin
C19_Ins2EarthAlone(h, m) ==
    adcp_ins2earth(<<<<args.u[h][m]>>>>, <<<<args.v[h][m]>>>>,
                   <<<<args.w[h][m]>>>>, <<args.heading[h]>>,
                   <<args.pitch[h]>>, <<args.roll[h]>>, <<args.vertical[h]>>)

\* magnetic_correction on sample h, bin k of the call alone
C19_CorrectionAlone(h, k) ==
    magnetic_correction(<<args.theta[h]>>, <<<<args.u[h][k]>>>>,
                        <<<<args.v[h][k]>>>>)

\* C19: the output of adcp_ins2earth and of magnetic_correction at sample
\* i, bin j is what the function returns for that sample and bin alone: it
\* depends on the angles of sample i and the velocities at (i, j), and on
\* no other sample or bin.
C19_SampleAndBinLocal ==
    /\ (/\ Ok("adcp_ins2earth")
        /\ Shape(args.v) = Shape(args.u)
        /\ Shape(args.w) = Shape(args.u)
        /\ \A a \in {args.heading, args.pitch, args.roll, args.vertical} :
             Len(a) = Len(args.u))
       => \A h \in Rows(args.u) : \A m \in Cols(args.u) :
            LET x == C19_Ins2EarthAlone(h, m)
            IN  /\ x.status = "ok"
                /\ ret.uu[h][m] = x.uu[1][1]
                /\ ret.vv[h][m] = x.vv[1][1]
                /\ ret.ww[h][m] = x.ww[1][1]
    /\ (/\ Ok("magnetic_correction")
        /\ Shape(args.v) = Shape(args.u)
        /\ Len(args.theta) = Len(args.u))
       => \A h \in Rows(args.u) : \A k \in Cols(args.u) :
            LET x == C19_CorrectionAlone(h, k)
            IN  /\ x.status = "ok"
                /\ ret.u_cor[h][k] = x.u_cor[1][1]
                /\ ret.v_cor[h][k] = x.v_cor[1][1]

\* C19 happens: a full batch whose samples differ in every angle and whose
\* bins differ in velocity, so that pooling any of them would show
C19_Witness ==
    /\ Ok("adcp_ins2earth")
    /\ Shape(args.u) = <<MaxN, MaxM>>
    /\ Shape(args.v) = Shape(args.u)
    /\ Shape(args.w) = Shape(args.u)
    /\ \A a \in {args.heading, args.pitch, args.roll, args.vertical} :
         Len(a) = MaxN /\ a[1] # a[2]
    /\ args.u[1][1] # args.u[1][MaxM]
    /\ args.u[1][1] # args.u[MaxN][1]
    /\ ret.loc.MM[1] # ret.loc.MM[2]
    /\ ret.uu[1][1] # ret.uu[MaxN][MaxM]

(***************************************************************************)
(* C21: frame effect.                                                      *)
(***************************************************************************)
\* the argument records a caller can hand to each function
PassedBeams ==
    {[b1 |-> bb[1], b2 |-> bb[2], b3 |-> bb[3], b4 |-> bb[4]] : bb \in BeamInputs}

PassedHorizontalBeam == {HorizontalArgs(x) : x \in BeamWrapperInputs}

PassedVerticalBeam == {VerticalArgs(x) : x \in BeamWrapperInputs}

PassedVerticalTrue ==
    {[b1 |-> x.b.b1, b2 |-> x.b.b2, b3 |-> x.b.b3, b4 |-> x.b.b4,
      b5 |-> x.b.b5, h |-> x.a.h, p |-> x.a.p, r |-> x.a.r, vf |-> x.a.vf] :
        x \in BeamWrapperInputs}

PassedErrorBeam ==
    {[b1 |-> x.b.b1, b2 |-> x.b.b2, b3 |-> x.b.b3, b4 |-> x.b.b4] :
        x \in BeamWrapperInputs}

PassedHorizontalEarth ==
    {[u |-> x.u, v |-> x.v, z |-> x.g.z, lat |-> x.g.lat, lon |-> x.g.lon,
      dt |-> x.g.dt] : x \in EarthWrapperInputs}

PassedEarthVertical == {[w |-> x.w] : x \in EarthWrapperInputs}

PassedEarthError == {[e |-> x.e] : x \in EarthWrapperInputs}

Passed(f) ==
    IF f \in {"adcp_beam2ins", "adcp_beam_error"} THEN PassedBeams
    ELSE IF f = "adcp_ins2earth" THEN Ins2EarthInputs
    ELSE IF f = "magnetic_correction" THEN MagneticInputs
    ELSE IF f = "adcp_bin_depths" THEN BinDepthInputs
    ELSE IF f = "adcp_bin_depths_pd8" THEN BinDepthPd8Inputs
    ELSE IF f = "adcp_backscatter" THEN BackscatterInputs
    ELSE IF f \in HorizontalBeam THEN PassedHorizontalBeam
    ELSE IF f = "vadcp_beam_vertical_true" THEN PassedVerticalTrue
    ELSE IF f \in VerticalBeam THEN PassedVerticalBeam
    ELSE IF f \in ErrorBeam THEN PassedErrorBeam
    ELSE IF f \in HorizontalEarth THEN PassedHorizontalEarth
    ELSE IF f = "adcp_earth_vertical" THEN PassedEarthVertical
    ELSE IF f = "adcp_earth_error" THEN PassedEarthError
    ELSE {}

\* one step of the module seen by the caller: entering a call leaves the
\* caller's arrays as they were passed (for a function that runs in one step
\* this is the whole call, successful or failing); a later statement of the
\* call does not touch them; and when the caller drops the result nothing of
\* the call is kept
C21_Frame ==
    /\ (pc = "idle" /\ pc' # "idle") => args' \in Passed(fn')
    /\ (pc # "idle" /\ pc' # "idle") => (args' = args /\ fn' = fn)
    /\ pc' = "idle" => (args' = <<>> /\ ret' = <<>> /\ fn' = "none")

\* C21: no function modifies its caller-supplied input arrays or keeps any
\* state: through every call, successful or failing, of a wrapper,
\* adcp_beam2ins, adcp_ins2earth, magnetic_correction, adcp_bin_depths,
\* adcp_bin_depths_pd8 or adcp_backscatter, the caller's arrays hold the
\* values they were passed with
C21_NoInputModified == [][C21_Frame]_vars

\* a wrapper has returned values scaled from its own argument, which differ
\* from it, and the argument is still one the caller passed
C21_Witness ==
    /\ Ok("adcp_earth_vertical")
    /\ ret.out # args.w
    /\ args \in PassedEarthVertical

(***************************************************************************)
(* C22: the declination adds to the heading.                               *)
(***************************************************************************)
\* declinations of the first sample; sample h is turned by 30 * (h - 1) more
C22_Thetas == {-30, 195}

C22_Theta(t0) == AngleArray(Len(args.heading), t0, 30)

\* magnetic_correction(theta) on the East and North of the call that returned
C22_Corrected(t0) == magnetic_correction(C22_Theta(t0), ret.uu, ret.vv)

\* adcp_ins2earth with heading + theta and the same pitch, roll, orientation
C22_Turned(t0) ==
    adcp_ins2earth(args.u, args.v, args.w,
                   [h \in 1..Len(args.heading) |->
                       args.heading[h] + C22_Theta(t0)[h]],
                   args.pitch, args.roll, args.vertical)

\* C22: magnetic_correction(theta) applied to the East and North outputs of
\* adcp_ins2earth with heading h equals, to within the rounding of the
\* arithmetic, the East and North of adcp_ins2earth with heading h + theta
\* and the same pitch, roll and orientation, in every sample and bin; and
\* the vertical output does not depend on theta.
C22_DeclinationAddsToHeading ==
    Ok("adcp_ins2earth") =>
        \A t0 \in C22_Thetas :
            LET corrected == C22_Corrected(t0)
                turned == C22_Turned(t0)
            IN  /\ corrected.status = "ok"
                /\ turned.status = "ok"
                /\ turned.ww = ret.ww
                /\ \A h \in Rows(ret.uu) : \A m \in Cols(ret.uu) :
                    LET mag == Abs(args.u[h][m]) + Abs(At(args.v, h, m))
                               + Abs(At(args.w, h, m))
                    IN  /\ Close(corrected.u_cor[h][m], turned.uu[h][m], mag)
                        /\ Close(corrected.v_cor[h][m], turned.vv[h][m], mag)

\* C22 happens: a full batch with a heading, pitch and roll that are not
\* multiples of 90 degrees in the first sample, whose East and North the
\* correction by -30 degrees changes
C22_Witness ==
    /\ Ok("adcp_ins2earth")
    /\ Shape(args.u) = <<MaxN, MaxM>>
    /\ SinDeg(args.heading[1]) # 0 /\ CosDeg(args.heading[1]) # 0
    /\ args.pitch[1] # 0
    /\ SinDeg(args.roll[1]) # 0 /\ CosDeg(args.roll[1]) # 0
    /\ C22_Corrected(-30).status = "ok"
    /\ C22_Corrected(-30).u_cor[1][1] # ret.uu[1][1]
    /\ C22_Corrected(-30).v_cor[1][1] # ret.vv[1][1]

(***************************************************************************)
(* C23: a level instrument, a zero declination.                            *)
(***************************************************************************)
\* sample h of the adcp_ins2earth call has heading = pitch = roll = 0
C23_Level(h) ==
    /\ args.heading[h] = 0
    /\ At1(args.pitch, h) = 0
    /\ At1(args.roll, h) = 0

\* C23: with heading = pitch = roll = 0 in a sample, adcp_ins2earth returns
\* (u, v, w) in that sample when its orientation flag is 0 and (-u, v, -w)
\* when its flag is 1; and magnetic_correction returns (u, v) in every sample
\* whose theta is 0.
C23_LevelIdentity ==
    /\ Ok("adcp_ins2earth") =>
        \A h \in Rows(ret.uu) : C23_Level(h) =>
            \A m \in Cols(ret.uu) :
                /\ At1(args.vertical, h) = 0 =>
                    /\ ret.uu[h][m] = args.u[h][m]
                    /\ ret.vv[h][m] = At(args.v, h, m)
                    /\ ret.ww[h][m] = At(args.w, h, m)
                /\ At1(args.vertical, h) = 1 =>
                    /\ ret.uu[h][m] = -args.u[h][m]
                    /\ ret.vv[h][m] = At(args.v, h, m)
                    /\ ret.ww[h][m] = -At(args.w, h, m)
    /\ Ok("magnetic_correction") =>
        \A h \in Rows(ret.u_cor) : At1(args.theta, h) = 0 =>
            \A k \in Cols(ret.u_cor) :
                /\ ret.u_cor[h][k] = At(args.u, h, k)
                /\ ret.v_cor[h][k] = At(args.v, h, k)

\* C23 happens: a full batch, level in every sample, with a downward-looking
\* sample that comes back as it went in and an upward-looking sample whose u
\* and w come back negated
C23_Witness ==
    /\ Ok("adcp_ins2earth")
    /\ Shape(args.u) = <<MaxN, MaxM>>
    /\ \A h \in Rows(args.u) : C23_Level(h)
    /\ \E h \in Rows(args.u) :
        /\ args.vertical[h] = 0
        /\ args.u[h][1] # 0 /\ args.v[h][1] # 0 /\ args.w[h][1] # 0
        /\ ret.uu[h][1] = args.u[h][1]
    /\ \E h \in Rows(args.u) :
        /\ args.vertical[h] = 1
        /\ args.u[h][1] # 0 /\ args.w[h][1] # 0
        /\ ret.uu[h][1] = -args.u[h][1]
        /\ ret.ww[h][1] = -args.w[h][1]

(***************************************************************************)
(* C24: only the flag 1 means upward-looking.                              *)
(***************************************************************************)
\* the adcp_ins2earth call that returned, with every flag other than 1 set
\* to 0
C24_AsDownward ==
    adcp_ins2earth(args.u, args.v, args.w, args.heading, args.pitch, args.roll,
                   [h \in 1..Len(args.vertical) |->
                       IF args.vertical[h] = 1 THEN 1 ELSE 0])

\* the offsets of the bins from the sensor, in metres, as the interpreter of
\* the call divides
C24_Offsets ==
    BinOffsets(CmToMetres(args.dist_first_bin, ret.loc.division),
               CmToMetres(args.bin_size, ret.loc.division), args.num_bins)

\* C24: only the orientation value 1 selects upward-looking behaviour.  In
\* adcp_ins2earth a sample whose flag is not 1 (0, 2, -1) gets the roll as
\* given, without the 180 degree offset, and the call returns or raises as it
\* does with those flags set to 0, with the same outputs; adcp_bin_depths
\* and adcp_bin_depths_pd8 return for every orientation value, and for a
\* value other than 1 each bin depth is the sensor depth plus the bin offset.
C24_OnlyOneIsUpward ==
    /\ Returned("adcp_ins2earth") =>
        LET downward == C24_AsDownward
        IN  /\ ret.status = downward.status
            /\ ret.status = "ok" =>
                /\ \A h \in Rows(ret.uu) :
                    At1(args.vertical, h) # 1 =>
                        ret.loc.R[h] = At1(args.roll, h)
                /\ ret.uu = downward.uu
                /\ ret.vv = downward.vv
                /\ ret.ww = downward.ww
    /\ Returned("adcp_bin_depths") =>
        /\ ret.status = "ok"
        /\ Len(ret.bin_depths) = args.num_bins
        /\ args.adcp_orientation # 1 =>
            \A k \in 1..args.num_bins :
                ret.bin_depths[k] = ret.loc.sensor_depth + C24_Offsets[k]
    /\ Returned("adcp_bin_depths_pd8") =>
        /\ ret.status = "ok"
        /\ Len(ret.bin_depths_pd8) = args.num_bins
        /\ args.adcp_orientation # 1 =>
            \A k \in 1..args.num_bins :
                ret.bin_depths_pd8[k] = Abs(args.sensor_depth) + C24_Offsets[k]

\* C24 happens: a batch whose first sample carries a flag that is neither 0
\* nor 1 and a roll that the offset would change, and keeps its roll, next
\* to an upward-looking sample that is offset
C24_Witness ==
    /\ Ok("adcp_ins2earth")
    /\ Len(args.u) >= 2
    /\ Len(args.vertical) = Len(args.u)
    /\ Len(args.roll) = Len(args.u)
    /\ args.vertical[1] \notin {0, 1}
    /\ args.vertical[2] = 1
    /\ SinDeg(args.roll[1]) # 0
    /\ ret.loc.R[1] = args.roll[1]
    /\ ret.loc.R[2] = args.roll[2] + 180

(***************************************************************************)
(* C25: adcp_bin_depths_pd8 reads the magnitude of the sensor depth.       *)
(***************************************************************************)
\* the call that returned, repeated by the same interpreter with the sensor
\* depth negated
C25_Mirrored ==
    adcp_bin_depths_pd8(args.dist_first_bin, args.bin_size, args.num_bins,
                        -args.sensor_depth, args.adcp_orientation,
                        ret.loc.division)

\* C25: for every sensor depth d, distance to the first bin, bin size, number
\* of bins and orientation, adcp_bin_depths_pd8 with sensor_depth = -d
\* returns the bin depths it returns with sensor_depth = d: a height
\* (negative) gives the bin depths of the depth of the same magnitude.
C25_SignOfDepthIgnored ==
    Ok("adcp_bin_depths_pd8") =>
        /\ C25_Mirrored.status = "ok"
        /\ C25_Mirrored.bin_depths_pd8 = ret.bin_depths_pd8

\* C25 happens: a negative sensor depth with as many bins as the model has,
\* whose first bin lies below the surface as it does for the positive depth
C25_Witness ==
    /\ Ok("adcp_bin_depths_pd8")
    /\ args.sensor_depth < 0
    /\ args.num_bins = MaxBins
    /\ args.adcp_orientation = 0
    /\ ret.bin_depths_pd8[1] =
           CmToMetres(args.dist_first_bin, ret.loc.division) - args.sensor_depth
    /\ ret.bin_depths_pd8[1] > 0
    /\ C25_Mirrored.bin_depths_pd8 = ret.bin_depths_pd8

====
